---- MODULE Spec2Model ----
\* Model of the interactive crop-region widget (ImageCropper with eight resize
\* handles) of src/src/components/SearchPage.tsx, lines 651-1151.
\*
\* JavaScript numbers are modelled as exact rationals <<n, d>> (d > 0, reduced):
\* every geometric quantity of the component is a sum, difference, product or
\* quotient of pointer coordinates, container sizes, natural image sizes, the
\* aspect ratio and the literals 0.8, 2, 18 and 60.
EXTENDS Integers, Sequences, FiniteSets, TLC

\* ---------------------------------------------------------------------------
\* Bounds and environment inputs
\* ---------------------------------------------------------------------------

\* Number of pointer presses and drag pointer-move steps one run performs.
MaxSteps == 4

\* Container clientWidth values (the dialog is at most max-w-lg wide).
ContainerWidths == {300}

\* Natural sizes <<naturalWidth, naturalHeight>> of the decoded images.
Images == {<<2000, 2000>>, <<100, 1000>>}

\* Values of the aspectRatio prop (width / height) as <<n, d>>.
AspectRatios == {<<1, 1>>, <<4, 5>>}

\* Pointer positions relative to the container's bounding rectangle.
PointerXs == {0, 45, 140, 160, 258}
PointerYs == {90, 220, 330}

\* ---------------------------------------------------------------------------
\* Number arithmetic
\* ---------------------------------------------------------------------------

Abs(n) == IF n < 0 THEN -n ELSE n

RECURSIVE GCD(_, _)
GCD(a, b) == IF b = 0 THEN a ELSE GCD(b, a % b)

Rat(n, d) ==
  LET s == IF d < 0 THEN -1 ELSE 1
      g == GCD(Abs(n), Abs(d))
  IN  <<(s * n) \div g, (s * d) \div g>>

Num(n) == <<n, 1>>

RAdd(a, b) == Rat(a[1] * b[2] + b[1] * a[2], a[2] * b[2])
RSub(a, b) == Rat(a[1] * b[2] - b[1] * a[2], a[2] * b[2])
RMul(a, b) == Rat(a[1] * b[1], a[2] * b[2])
\* Only used with a non-zero divisor; the one division whose divisor can be
\* zero (getMaxCropSize) is handled where it occurs.
RDiv(a, b) == Rat(a[1] * b[2], a[2] * b[1])
RLt(a, b)  == a[1] * b[2] < b[1] * a[2]
RLe(a, b)  == a[1] * b[2] <= b[1] * a[2]
RGt(a, b)  == RLt(b, a)
RGe(a, b)  == RLe(b, a)
RMax(a, b) == IF RLt(a, b) THEN b ELSE a
RMin(a, b) == IF RLt(b, a) THEN b ELSE a
RAbs(a)    == <<Abs(a[1]), a[2]>>

Zero == Num(0)
Two  == Num(2)

\* ---------------------------------------------------------------------------
\* Program constants
\* ---------------------------------------------------------------------------

MIN_CROP_SIZE == 60
edge == 18
ContainerHeight == 420
InitialFraction == <<4, 5>>

NULL == "null"

DragModes == {"move", "resize-tl", "resize-tr", "resize-bl", "resize-br",
              "resize-t", "resize-b", "resize-l", "resize-r"}

\* ---------------------------------------------------------------------------
\* State
\* ---------------------------------------------------------------------------

VARIABLES
  aspectRatio,  \* the aspectRatio prop
  imgRef,       \* imgRef.current: NULL or the natural size of the image
  clientWidth,  \* containerRef.current.clientWidth
  imgLoaded,
  cropArea,     \* {x, y, w, h}
  dragMode,
  dragStart,    \* {x, y}
  cropStart,    \* {x, y, w, h}
  imgDims,      \* {w, h, dispW, dispH, offsetX, offsetY}
  cursorStyle,
  lastEvent,    \* history: whether the last step was calcDims, a drag pointer-move (with its pointer position), an export or a hover
  steps,        \* history: number of presses and drag pointer-move steps so far
  canvas,       \* the export canvas: its size and the source rectangle drawn into it
  avatar,       \* the square avatar cropper of ImageCropper.tsx: {imgRef, imgDims, cropArea, canvas}
  app,          \* App: {currentPage, viewingUser, chatTarget, unreadMessages, unreadGroups, isOnGroupsPageRef, groupsLastRead}
  backend,      \* the database and its clock: {now, unread, groupMessages (creation times of other users' group messages), isMember, following, dms (creation times of the direct messages with each contact)}
  inflight,     \* App's requests awaiting their response: {messages, groups, msgNext, grpNext}
  messagesPage, \* MessagesPage (part_002): contacts, deletedConvos, selection, long-press refs, pending timeouts
  contactFetches, \* MessagesPage's fetchContacts calls awaiting their response
  homePage,     \* HomePage: the notification panel, its counters, its fetchNotifications calls in flight
  chat,         \* the chat view of MessagesPage / GroupsPage: displayed messages, scroll refs, fetchMessages calls in flight
  feed,         \* App's posts state for one post, and its handleLike calls and fetchPosts calls in flight
  session,      \* App's currentUser, and the fetchUnreadMessages calls in flight with the user they were started for
  appLog        \* history: the unread-message fetch completed last {id, count} and the ids of those completed earlier

\* The state of the aspect-ratio cropper.
cropperVars == <<aspectRatio, imgRef, clientWidth, imgLoaded, cropArea,
                 dragMode, dragStart, cropStart, imgDims, cursorStyle,
                 lastEvent, steps>>

\* The state of App (part_003) and of the backend it talks to.
\* The state of the components the later sections add.
otherPages == <<homePage, chat, feed, session>>

pageVars == <<app, backend, inflight, appLog, messagesPage, contactFetches,
              otherPages>>

\* The state the pointer and layout handlers of the cropper never touch.
restVars == <<canvas, avatar, pageVars>>

vars == <<cropperVars, restVars>>

Event(op, px, py) == [op |-> op, px |-> px, py |-> py]

InitWith(ratios, widths) ==
  /\ aspectRatio \in ratios
  /\ imgRef = NULL
  /\ clientWidth \in widths
  /\ imgLoaded = FALSE
  /\ cropArea = [x |-> Zero, y |-> Zero, w |-> Num(200), h |-> Num(200)]
  /\ dragMode = NULL
  /\ dragStart = [x |-> Zero, y |-> Zero]
  /\ cropStart = [x |-> Zero, y |-> Zero, w |-> Zero, h |-> Zero]
  /\ imgDims = [w |-> Zero, h |-> Zero, dispW |-> Zero, dispH |-> Zero,
                offsetX |-> Zero, offsetY |-> Zero]
  /\ cursorStyle = "default"
  /\ lastEvent = Event("other", 0, 0)
  /\ steps = 0

\* A canvas element nothing was drawn into (300 x 150 by default).
EmptyCanvas ==
  [drawn |-> FALSE,
   src |-> [srcX |-> Zero, srcY |-> Zero, srcW |-> Zero, srcH |-> Zero],
   width |-> 300, height |-> 150]

\* The avatar cropper before its image has loaded (cropArea {0, 0, 200}).
AvatarInit ==
  [imgRef |-> NULL,
   imgDims |-> [w |-> Zero, h |-> Zero, dispW |-> Zero, dispH |-> Zero,
                offsetX |-> Zero, offsetY |-> Zero],
   cropArea |-> [x |-> Zero, y |-> Zero, size |-> Num(200)],
   canvas |-> EmptyCanvas]

\* ---------------------------------------------------------------------------
\* App after login: bounds, inputs and initial state
\* ---------------------------------------------------------------------------

\* Number of fetchUnreadMessages calls, and of fetchUnreadGroups calls, of a run.
MaxFetches == 2

\* Last value of the clock (the epoch, new Date(0), is 0).
MaxTime == 2

\* Largest number of unread direct messages the database holds.
MaxUnread == 2

Pages == {"home", "messages", "groups"}

MessageFetch(id, stage, count) == [id |-> id, stage |-> stage, count |-> count]

GroupFetch(id, stage, lastRead, count) ==
  [id |-> id, stage |-> stage, lastRead |-> lastRead, count |-> count]

\* useState / useRef initial values; localStorage holds no last-read time.
AppInit ==
  [currentPage |-> "home", viewingUser |-> NULL, chatTarget |-> NULL,
   unreadMessages |-> 0, unreadGroups |-> 0, isOnGroupsPageRef |-> FALSE,
   groupsLastRead |-> 0]

\* The currentUser effect has called fetchUnreadMessages and fetchUnreadGroups.
InflightInit ==
  [messages |-> {MessageFetch(1, "sent", 0)},
   groups |-> {GroupFetch(1, "members", 0, 0)},
   msgNext |-> 2, grpNext |-> 2]

\* No fetchUnreadMessages call has completed yet.
AppLogInit == [id |-> 0, count |-> 0, earlier |-> {}]

\* The other users the current user can have a conversation with.
Contacts == {"u1", "u2"}

\* The contacts the current user follows.
Following == {"u1"}

NoTimer == 0

\* No long press has opened the popup yet.
NotOpened == [id |-> NoTimer, user |-> NULL, cancelled |-> FALSE]

ContactFetch(stage, result) == [stage |-> stage, result |-> result]

\* MessagesPage as mounted: useState / useRef initial values, nothing stored
\* under deleted_convos (0 stands for no entry).
MessagesPageInit ==
  [contacts |-> {}, selectedUser |-> NULL,
   deletedConvos |-> [u \in Contacts |-> 0],
   longPressUser |-> NULL, showDeletePopup |-> FALSE,
   longPressTimerRef |-> NoTimer, longPressTriggeredRef |-> FALSE,
   timers |-> {}, nextTimer |-> 1, held |-> {}, opened |-> NotOpened]

\* No notification was ever seen: nothing stored under notif_last_seen, and
\* lastSeenRef.current is null.
NeverSeen == 0

NotifFetch(id, stage, result, early) ==
  [id |-> id, stage |-> stage, result |-> result, early |-> early]

\* HomePage as mounted: useState / useRef initial values; the mount effect
\* has called fetchNotifications. stored is localStorage's notif_last_seen;
\* raced (history) tells whether the fetch completed last was in flight when
\* the panel was opened.
HomePageInit ==
  [notifications |-> {}, showNotifications |-> FALSE, unreadCount |-> 0,
   lastSeenRef |-> NeverSeen, stored |-> NeverSeen,
   fetches |-> {NotifFetch(1, "sent", {}, FALSE)}, raced |-> FALSE]

\* The database with nothing in the tables the model follows.
BackendIdle ==
  [now |-> 1, unread |-> 0, groupMessages |-> {}, isMember |-> TRUE,
   following |-> Following, dms |-> [u \in Contacts |-> {}],
   notifs |-> {}, rows |-> <<>>, likeRows |-> 0, likesUnique |-> FALSE]

\* App's view of one post, as after the login fetchPosts: liked tells whether
\* post.likes holds a like of the current user; toggles are the handleLike
\* calls awaiting their insert or delete, fetches the fetchPosts calls in
\* flight.
FeedInit == [liked |-> FALSE, toggles |-> {}, fetches |-> {}]

\* The chat view as mounted with the contact list in front: useState /
\* useRef initial values. distance is the container's distance from the
\* bottom in px; sending is the peer of a handleSend call awaiting its insert.
\* History: scrolled (the last auto-scroll effect called scrollIntoView on a
\* displayed chat), grew (the last setMessages set a longer list), loadedSince (a non-empty list was set since the
\* conversation was selected), sentSinceScroll (send was pressed after the
\* last scroll event).
ChatInit ==
  [selectedUser |-> NULL, messages |-> <<>>, isInitialLoadRef |-> TRUE,
   prevMessageCountRef |-> 0, isNearBottomRef |-> TRUE, distance |-> 0,
   fetches |-> {}, sending |-> NULL, scrolled |-> FALSE, grew |-> FALSE,
   loadedSince |-> FALSE, sentSinceScroll |-> FALSE]

\* App before anybody has logged in: currentUser is null, no
\* fetchUnreadMessages call is in flight. History: badgeOwner is the user
\* whose fetch set unreadMessages last (NULL after a reset to 0), targeted
\* tells whether handleNavigateMessages has set a chat target.
SessionInit ==
  [currentUser |-> NULL, fetches |-> {}, badgeOwner |-> NULL,
   targeted |-> FALSE]

OtherPagesInit ==
  /\ homePage = HomePageInit
  /\ chat = ChatInit
  /\ feed = FeedInit
  /\ session = SessionInit

PagesInitWith(unreads, memberships) ==
  /\ app = AppInit
  /\ backend \in {[BackendIdle EXCEPT !.unread = n, !.isMember = m] :
                     n \in unreads, m \in memberships}
  /\ OtherPagesInit
  /\ inflight = InflightInit
  /\ appLog = AppLogInit
  /\ messagesPage = MessagesPageInit
  /\ contactFetches = {}

\* App as it is while a cropper dialog is open in front of it.
PagesIdle == PagesInitWith({0}, {TRUE})

RestInit ==
  /\ canvas = EmptyCanvas
  /\ avatar = AvatarInit
  /\ PagesIdle

Init == InitWith(AspectRatios, ContainerWidths) /\ RestInit

\* ---------------------------------------------------------------------------
\* calcDims: display transform and initial crop region
\* ---------------------------------------------------------------------------

calcImgDims(cw, img) ==
  LET ch      == Num(ContainerHeight)
      iw      == Num(img[1])
      ih      == Num(img[2])
      scale   == RMin(RDiv(Num(cw), iw), RDiv(ch, ih))
      dispW   == RMul(iw, scale)
      dispH   == RMul(ih, scale)
  IN  [w |-> iw, h |-> ih, dispW |-> dispW, dispH |-> dispH,
       offsetX |-> RDiv(RSub(Num(cw), dispW), Two),
       offsetY |-> RDiv(RSub(ch, dispH), Two)]

\* calcCropArea without the comparison of the image's ratio with aspectRatio.
calcCropArea_widthOnly(d, ar) ==
  LET cropW0 == RMul(d.dispW, InitialFraction)
      cropH0 == RDiv(cropW0, ar)
      over2  == RGt(cropH0, d.dispH)
      cropH2 == IF over2 THEN d.dispH ELSE cropH0
      cropW2 == IF over2 THEN RMul(cropH2, ar) ELSE cropW0
  IN  [x |-> RAdd(d.offsetX, RDiv(RSub(d.dispW, cropW2), Two)),
       y |-> RAdd(d.offsetY, RDiv(RSub(d.dispH, cropH2), Two)),
       w |-> cropW2, h |-> cropH2]

calcCropArea(d, ar) ==
  LET wide  == RGt(RDiv(d.dispW, d.dispH), ar)
      cropH0 == IF wide THEN RMul(d.dispH, InitialFraction)
                ELSE RDiv(RMul(d.dispW, InitialFraction), ar)
      cropW0 == IF wide THEN RMul(cropH0, ar)
                ELSE RMul(d.dispW, InitialFraction)
      over1  == RGt(cropW0, d.dispW)
      cropW1 == IF over1 THEN d.dispW ELSE cropW0
      cropH1 == IF over1 THEN RDiv(cropW1, ar) ELSE cropH0
      over2  == RGt(cropH1, d.dispH)
      cropH2 == IF over2 THEN d.dispH ELSE cropH1
      cropW2 == IF over2 THEN RMul(cropH2, ar) ELSE cropW1
  IN  [x |-> RAdd(d.offsetX, RDiv(RSub(d.dispW, cropW2), Two)),
       y |-> RAdd(d.offsetY, RDiv(RSub(d.dispH, cropH2), Two)),
       w |-> cropW2, h |-> cropH2]

\* The body of calcDims after its early return.
calcDims(cw, img) ==
  /\ imgDims' = calcImgDims(cw, img)
  /\ cropArea' = calcCropArea(calcImgDims(cw, img), aspectRatio)

\* img.onload: stores the image, sets imgLoaded; the imgLoaded effect then runs
\* calcDims.
ImgOnloadOf(images) ==
  /\ imgRef = NULL
  /\ \E img \in images :
       /\ imgRef' = img
       /\ calcDims(clientWidth, img)
  /\ imgLoaded' = TRUE
  /\ lastEvent' = Event("calcDims", 0, 0)
  /\ UNCHANGED <<aspectRatio, clientWidth, dragMode, dragStart, cropStart,
                 cursorStyle, steps>>
  /\ UNCHANGED restVars

\* The window 'resize' listener (and the 50 ms timer armed by img.onload):
\* calcDims with the container's current width.
WindowResizeTo(widths) ==
  /\ \E cw \in widths :
       /\ clientWidth' = cw
       /\ IF imgRef = NULL
            THEN UNCHANGED <<imgDims, cropArea>>
            ELSE calcDims(cw, imgRef)
  /\ lastEvent' = Event(IF imgRef = NULL THEN "other" ELSE "calcDims", 0, 0)
  /\ UNCHANGED <<aspectRatio, imgRef, imgLoaded, dragMode, dragStart,
                 cropStart, cursorStyle, steps>>
  /\ UNCHANGED restVars

ImgOnload == ImgOnloadOf(Images)

WindowResize == WindowResizeTo(ContainerWidths)

\* ---------------------------------------------------------------------------
\* Geometry helpers
\* ---------------------------------------------------------------------------

clampCrop(d, x, y, w, h) ==
  [x |-> RMax(d.offsetX, RMin(RSub(RAdd(d.offsetX, d.dispW), w), x)),
   y |-> RMax(d.offsetY, RMin(RSub(RAdd(d.offsetY, d.dispH), h), y))]

\* maxW / maxH > aspectRatio as JavaScript evaluates it: a zero divisor gives
\* +Infinity (maxW > 0), -Infinity (maxW < 0) or NaN (maxW = 0), and only
\* +Infinity compares greater.
RatioExceeds(maxW, maxH, ar) ==
  IF maxH = Zero THEN RGt(maxW, Zero) ELSE RGt(RDiv(maxW, maxH), ar)

getMaxCropSize(d, ar, anchorX, anchorY, dirX, dirY) ==
  LET maxW0 == IF dirX > 0 THEN RSub(RAdd(d.offsetX, d.dispW), anchorX)
               ELSE RSub(anchorX, d.offsetX)
      maxH0 == IF dirY > 0 THEN RSub(RAdd(d.offsetY, d.dispH), anchorY)
               ELSE RSub(anchorY, d.offsetY)
  IN  IF RatioExceeds(maxW0, maxH0, ar)
        THEN [maxW |-> RMul(maxH0, ar), maxH |-> maxH0]
        ELSE [maxW |-> maxW0, maxH |-> RDiv(maxW0, ar)]

\* detectMode that tests the edge bands before the corners.
detectMode_edgesFirst(c, px, py) ==
  LET x == c.x
      y == c.y
      w == c.w
      h == c.h
      e == Num(edge)
      nearLeft   == RLt(RAbs(RSub(px, x)), e)
      nearRight  == RLt(RAbs(RSub(px, RAdd(x, w))), e)
      nearTop    == RLt(RAbs(RSub(py, y)), e)
      nearBottom == RLt(RAbs(RSub(py, RAdd(y, h))), e)
      inX == RGe(px, RSub(x, e)) /\ RLe(px, RAdd(RAdd(x, w), e))
      inY == RGe(py, RSub(y, e)) /\ RLe(py, RAdd(RAdd(y, h), e))
  IN  IF nearTop /\ inX THEN "resize-t"
      ELSE IF nearBottom /\ inX THEN "resize-b"
      ELSE IF nearLeft /\ inY THEN "resize-l"
      ELSE IF nearRight /\ inY THEN "resize-r"
      ELSE IF nearTop /\ nearLeft THEN "resize-tl"
      ELSE IF nearTop /\ nearRight THEN "resize-tr"
      ELSE IF nearBottom /\ nearLeft THEN "resize-bl"
      ELSE IF nearBottom /\ nearRight THEN "resize-br"
      ELSE IF RGe(px, x) /\ RLe(px, RAdd(x, w)) /\ RGe(py, y) /\ RLe(py, RAdd(y, h))
        THEN "move"
      ELSE NULL

detectMode(c, px, py) ==
  LET x == c.x
      y == c.y
      w == c.w
      h == c.h
      e == Num(edge)
      nearLeft   == RLt(RAbs(RSub(px, x)), e)
      nearRight  == RLt(RAbs(RSub(px, RAdd(x, w))), e)
      nearTop    == RLt(RAbs(RSub(py, y)), e)
      nearBottom == RLt(RAbs(RSub(py, RAdd(y, h))), e)
      inX == RGe(px, RSub(x, e)) /\ RLe(px, RAdd(RAdd(x, w), e))
      inY == RGe(py, RSub(y, e)) /\ RLe(py, RAdd(RAdd(y, h), e))
  IN  IF nearTop /\ nearLeft THEN "resize-tl"
      ELSE IF nearTop /\ nearRight THEN "resize-tr"
      ELSE IF nearBottom /\ nearLeft THEN "resize-bl"
      ELSE IF nearBottom /\ nearRight THEN "resize-br"
      ELSE IF nearTop /\ inX THEN "resize-t"
      ELSE IF nearBottom /\ inX THEN "resize-b"
      ELSE IF nearLeft /\ inY THEN "resize-l"
      ELSE IF nearRight /\ inY THEN "resize-r"
      ELSE IF RGe(px, x) /\ RLe(px, RAdd(x, w)) /\ RGe(py, y) /\ RLe(py, RAdd(y, h))
        THEN "move"
      ELSE NULL

\* getCursor with the two diagonal cursors exchanged.
getCursor_diagonalsSwapped(mode) ==
  CASE mode \in {"resize-tl", "resize-br"} -> "nesw-resize"
    [] mode \in {"resize-tr", "resize-bl"} -> "nwse-resize"
    [] mode \in {"resize-t", "resize-b"}   -> "ns-resize"
    [] mode \in {"resize-l", "resize-r"}   -> "ew-resize"
    [] mode = "move"                       -> "grab"
    [] OTHER                               -> "default"

getCursor(mode) ==
  CASE mode \in {"resize-tl", "resize-br"} -> "nwse-resize"
    [] mode \in {"resize-tr", "resize-bl"} -> "nesw-resize"
    [] mode \in {"resize-t", "resize-b"}   -> "ns-resize"
    [] mode \in {"resize-l", "resize-r"}   -> "ew-resize"
    [] mode = "move"                       -> "grab"
    [] OTHER                               -> "default"

\* boundWidth without the minimum.
boundWidth_noMin(newW, maxW) == RMin(newW, maxW)

\* boundHeight without the minimum.
boundHeight_noMin(newH, maxH, ar) == RMin(newH, maxH)

\* Math.max(MIN_CROP_SIZE, Math.min(newW, maxW))
boundWidth(newW, maxW) == RMax(Num(MIN_CROP_SIZE), RMin(newW, maxW))

\* Math.max(MIN_CROP_SIZE / aspectRatio, Math.min(newH, maxH))
boundHeight(newH, maxH, ar) == RMax(RDiv(Num(MIN_CROP_SIZE), ar), RMin(newH, maxH))

Region(x, y, w, h) == [x |-> x, y |-> y, w |-> w, h |-> h]

\* ---------------------------------------------------------------------------
\* handlePointerMove: the eight resize cases (cs is cropStart, d is imgDims)
\* ---------------------------------------------------------------------------

\* resize-br driven by the larger of the two displacements.
resize_br_usesDy(cs, dx, dy, d, ar) ==
  LET max  == getMaxCropSize(d, ar, cs.x, cs.y, 1, 1)
      newW == boundWidth(RAdd(cs.w, RMax(dx, dy)), max.maxW)
  IN  Region(cs.x, cs.y, newW, RDiv(newW, ar))

resize_br(cs, dx, dy, d, ar) ==
  LET max  == getMaxCropSize(d, ar, cs.x, cs.y, 1, 1)
      newW == boundWidth(RAdd(cs.w, dx), max.maxW)
  IN  Region(cs.x, cs.y, newW, RDiv(newW, ar))

resize_bl(cs, dx, dy, d, ar) ==
  LET max  == getMaxCropSize(d, ar, RAdd(cs.x, cs.w), cs.y, -1, 1)
      newW == boundWidth(RSub(cs.w, dx), max.maxW)
  IN  Region(RSub(RAdd(cs.x, cs.w), newW), cs.y, newW, RDiv(newW, ar))

resize_tr(cs, dx, dy, d, ar) ==
  LET max  == getMaxCropSize(d, ar, cs.x, RAdd(cs.y, cs.h), 1, -1)
      newW == boundWidth(RAdd(cs.w, dx), max.maxW)
      newH == RDiv(newW, ar)
  IN  Region(cs.x, RSub(RAdd(cs.y, cs.h), newH), newW, newH)

\* resize-tl bounded by the space right of and below the anchor.
resize_tl_wrongDirection(cs, dx, dy, d, ar) ==
  LET max  == getMaxCropSize(d, ar, cs.x, cs.y, 1, 1)
      newW == boundWidth(RSub(cs.w, dx), max.maxW)
      newH == RDiv(newW, ar)
  IN  Region(RSub(RAdd(cs.x, cs.w), newW), RSub(RAdd(cs.y, cs.h), newH), newW, newH)

resize_tl(cs, dx, dy, d, ar) ==
  LET max  == getMaxCropSize(d, ar, RAdd(cs.x, cs.w), RAdd(cs.y, cs.h), -1, -1)
      newW == boundWidth(RSub(cs.w, dx), max.maxW)
      newH == RDiv(newW, ar)
  IN  Region(RSub(RAdd(cs.x, cs.w), newW), RSub(RAdd(cs.y, cs.h), newH), newW, newH)

resize_r(cs, dx, dy, d, ar) ==
  LET max     == getMaxCropSize(d, ar, cs.x, cs.y, 1, 1)
      newW    == boundWidth(RAdd(cs.w, dx), max.maxW)
      newH    == RDiv(newW, ar)
      centerY == RAdd(cs.y, RDiv(cs.h, Two))
  IN  Region(cs.x, RSub(centerY, RDiv(newH, Two)), newW, newH)

resize_l(cs, dx, dy, d, ar) ==
  LET effectiveMaxW == RSub(RAdd(cs.x, cs.w), d.offsetX)
      newW == boundWidth(RSub(cs.w, dx), effectiveMaxW)
      newH == RDiv(newW, ar)
      cY   == RAdd(cs.y, RDiv(cs.h, Two))
  IN  Region(RSub(RAdd(cs.x, cs.w), newW), RSub(cY, RDiv(newH, Two)), newW, newH)

resize_b(cs, dx, dy, d, ar) ==
  LET max     == getMaxCropSize(d, ar, cs.x, cs.y, 1, 1)
      newH    == boundHeight(RAdd(cs.h, dy), max.maxH, ar)
      newW    == RMul(newH, ar)
      centerX == RAdd(cs.x, RDiv(cs.w, Two))
  IN  Region(RSub(centerX, RDiv(newW, Two)), cs.y, newW, newH)

resize_t(cs, dx, dy, d, ar) ==
  LET effectiveMaxH == RSub(RAdd(cs.y, cs.h), d.offsetY)
      newH == boundHeight(RSub(cs.h, dy), effectiveMaxH, ar)
      newW == RMul(newH, ar)
      cX   == RAdd(cs.x, RDiv(cs.w, Two))
  IN  Region(RSub(cX, RDiv(newW, Two)), RSub(RAdd(cs.y, cs.h), newH), newW, newH)

\* The switch on dragMode.
resizeSwitch(mode, cs, dx, dy, d, ar) ==
  CASE mode = "resize-br" -> resize_br(cs, dx, dy, d, ar)
    [] mode = "resize-bl" -> resize_bl(cs, dx, dy, d, ar)
    [] mode = "resize-tr" -> resize_tr(cs, dx, dy, d, ar)
    [] mode = "resize-tl" -> resize_tl(cs, dx, dy, d, ar)
    [] mode = "resize-r"  -> resize_r(cs, dx, dy, d, ar)
    [] mode = "resize-l"  -> resize_l(cs, dx, dy, d, ar)
    [] mode = "resize-b"  -> resize_b(cs, dx, dy, d, ar)
    [] mode = "resize-t"  -> resize_t(cs, dx, dy, d, ar)
    [] OTHER              -> cs

\* finalClamp that leaves the height alone when it cuts the width.
finalClamp_keepsHeight(r, d, ar) ==
  LET newX  == RMax(d.offsetX, r.x)
      newY  == RMax(d.offsetY, r.y)
      overX == RGt(RAdd(newX, r.w), RAdd(d.offsetX, d.dispW))
      newW1 == IF overX THEN RSub(RAdd(d.offsetX, d.dispW), newX) ELSE r.w
      overY == RGt(RAdd(newY, r.h), RAdd(d.offsetY, d.dispH))
      newH2 == IF overY THEN RSub(RAdd(d.offsetY, d.dispH), newY) ELSE r.h
      newW2 == IF overY THEN RMul(newH2, ar) ELSE newW1
  IN  Region(newX, newY, newW2, newH2)

\* The clamp that follows the switch.
finalClamp(r, d, ar) ==
  LET newX  == RMax(d.offsetX, r.x)
      newY  == RMax(d.offsetY, r.y)
      overX == RGt(RAdd(newX, r.w), RAdd(d.offsetX, d.dispW))
      newW1 == IF overX THEN RSub(RAdd(d.offsetX, d.dispW), newX) ELSE r.w
      newH1 == IF overX THEN RDiv(newW1, ar) ELSE r.h
      overY == RGt(RAdd(newY, newH1), RAdd(d.offsetY, d.dispH))
      newH2 == IF overY THEN RSub(RAdd(d.offsetY, d.dispH), newY) ELSE newH1
      newW2 == IF overY THEN RMul(newH2, ar) ELSE newW1
  IN  Region(newX, newY, newW2, newH2)

\* The move branch: setCropArea(prev => ({ ...prev, ...clamped })).
moveCrop(prev, cs, dx, dy, d) ==
  LET clamped == clampCrop(d, RAdd(cs.x, dx), RAdd(cs.y, dy), cs.w, cs.h)
  IN  Region(clamped.x, clamped.y, prev.w, prev.h)

\* The crop region a pointer-move at (px, py) sets while a drag is active.
dragCrop(mode, prev, cs, ds, px, py, d, ar) ==
  LET dx == RSub(Num(px), ds.x)
      dy == RSub(Num(py), ds.y)
  IN  IF mode = "move"
        THEN moveCrop(prev, cs, dx, dy, d)
        ELSE finalClamp(resizeSwitch(mode, cs, dx, dy, d, ar), d, ar)

\* ---------------------------------------------------------------------------
\* Pointer handlers
\* ---------------------------------------------------------------------------

handlePointerDown(px, py) ==
  LET mode == detectMode(cropArea, Num(px), Num(py))
  IN  /\ steps < MaxSteps
      /\ steps' = steps + 1
      /\ lastEvent' = Event("other", 0, 0)
      /\ IF mode = NULL
           THEN UNCHANGED <<dragMode, dragStart, cropStart, cursorStyle>>
           ELSE /\ dragMode' = mode
                /\ dragStart' = [x |-> Num(px), y |-> Num(py)]
                /\ cropStart' = cropArea
                /\ cursorStyle' = IF mode = "move" THEN "grabbing" ELSE getCursor(mode)
      /\ UNCHANGED <<aspectRatio, imgRef, clientWidth, imgLoaded, cropArea,
                     imgDims>>
      /\ UNCHANGED restVars

handlePointerMove(px, py) ==
  /\ IF dragMode = NULL
       THEN /\ cursorStyle' = getCursor(detectMode(cropArea, Num(px), Num(py)))
            /\ lastEvent' = Event("other", 0, 0)
            /\ UNCHANGED <<aspectRatio, imgRef, clientWidth, imgLoaded,
                           cropArea, dragMode, dragStart, cropStart, imgDims,
                           steps>>
       ELSE /\ steps < MaxSteps
            /\ cropArea' = dragCrop(dragMode, cropArea, cropStart, dragStart,
                                    px, py, imgDims, aspectRatio)
            /\ steps' = steps + 1
            /\ lastEvent' = Event("drag", px, py)
            /\ UNCHANGED <<aspectRatio, imgRef, clientWidth, imgLoaded,
                           dragMode, dragStart, cropStart, imgDims,
                           cursorStyle>>
  /\ UNCHANGED restVars

\* handlePointerUp that resets the cursor but leaves the drag mode set.
handlePointerUp_keepsMode ==
  /\ cursorStyle' = "default"
  /\ lastEvent' = Event("other", 0, 0)
  /\ UNCHANGED <<aspectRatio, imgRef, clientWidth, imgLoaded, cropArea,
                 dragMode, dragStart, cropStart, imgDims, steps>>
  /\ UNCHANGED restVars

\* onPointerUp and onPointerLeave.
handlePointerUp ==
  /\ dragMode' = NULL
  /\ cursorStyle' = "default"
  /\ lastEvent' = Event("other", 0, 0)
  /\ UNCHANGED <<aspectRatio, imgRef, clientWidth, imgLoaded, cropArea,
                 dragStart, cropStart, imgDims, steps>>
  /\ UNCHANGED restVars

\* ---------------------------------------------------------------------------
\* handleCrop: export of the selected region
\* ---------------------------------------------------------------------------

MaxOutputWidth == 1080

\* Math.round: the integer nearest to a, halves rounded up.
Round(a) == (2 * a[1] + a[2]) \div (2 * a[2])

\* mapRegionToSource that forgets the letterbox offsets.
mapRegionToSource_noOffset(c, d) ==
  LET scaleX == RDiv(d.w, d.dispW)
      scaleY == RDiv(d.h, d.dispH)
  IN  [srcX |-> RMul(c.x, scaleX),
       srcY |-> RMul(c.y, scaleY),
       srcW |-> RMul(c.w, scaleX),
       srcH |-> RMul(c.h, scaleY)]

\* The source rectangle of region c under the display transform d.
mapRegionToSource(c, d) ==
  LET scaleX == RDiv(d.w, d.dispW)
      scaleY == RDiv(d.h, d.dispH)
  IN  [srcX |-> RMul(RSub(c.x, d.offsetX), scaleX),
       srcY |-> RMul(RSub(c.y, d.offsetY), scaleY),
       srcW |-> RMul(c.w, scaleX),
       srcH |-> RMul(c.h, scaleY)]

\* outputWidth without the cap.
outputWidth_noCap(srcW) == Round(srcW)

\* Math.min(1080, Math.round(srcW))
outputWidth(srcW) ==
  IF Round(srcW) < MaxOutputWidth THEN Round(srcW) ELSE MaxOutputWidth

\* outputHeight that copies the source height.
outputHeight_fromSource(outputW, srcH, ar) == Round(srcH)

\* Math.round(outputW / aspectRatio); srcH is not used.
outputHeight(outputW, srcH, ar) == Round(RDiv(Num(outputW), ar))

\* The Crop button: sizes the canvas and draws the source rectangle into it.
handleCrop ==
  /\ imgRef # NULL
  /\ LET src     == mapRegionToSource(cropArea, imgDims)
         outputW == outputWidth(src.srcW)
         outputH == outputHeight(outputW, src.srcH, aspectRatio)
     IN  canvas' = [drawn |-> TRUE, src |-> src, width |-> outputW,
                    height |-> outputH]
  /\ lastEvent' = Event("crop", 0, 0)
  /\ UNCHANGED <<aspectRatio, imgRef, clientWidth, imgLoaded, cropArea,
                 dragMode, dragStart, cropStart, imgDims, cursorStyle, steps>>
  /\ UNCHANGED <<avatar, pageVars>>

\* ---------------------------------------------------------------------------
\* The square avatar cropper (ImageCropper.tsx): calcDims and handleCrop. Its
\* pointer handlers only move the region; they never change cropArea.size.
\* ---------------------------------------------------------------------------

AvatarContainerHeight == 400
AvatarOutputSize == 400

avatarCalcDims(cw, img) ==
  LET ch       == Num(AvatarContainerHeight)
      iw       == Num(img[1])
      ih       == Num(img[2])
      scale    == RMin(RDiv(Num(cw), iw), RDiv(ch, ih))
      dispW    == RMul(iw, scale)
      dispH    == RMul(ih, scale)
      offsetX  == RDiv(RSub(Num(cw), dispW), Two)
      offsetY  == RDiv(RSub(ch, dispH), Two)
      cropSize == RMul(RMin(dispW, dispH), InitialFraction)
  IN  [avatar EXCEPT
         !.imgRef = img,
         !.imgDims = [w |-> iw, h |-> ih, dispW |-> dispW, dispH |-> dispH,
                      offsetX |-> offsetX, offsetY |-> offsetY],
         !.cropArea = [x |-> RAdd(offsetX, RDiv(RSub(dispW, cropSize), Two)),
                       y |-> RAdd(offsetY, RDiv(RSub(dispH, cropSize), Two)),
                       size |-> cropSize]]

\* img.onload of the avatar cropper, followed by calcDims.
AvatarImgOnloadOf(images, widths) ==
  /\ avatar.imgRef = NULL
  /\ \E img \in images, cw \in widths : avatar' = avatarCalcDims(cw, img)
  /\ UNCHANGED <<cropperVars, canvas, pageVars>>

\* handleCrop of the avatar cropper: a fixed 400 x 400 output.
avatarHandleCrop ==
  /\ avatar.imgRef # NULL
  /\ LET d      == avatar.imgDims
         c      == avatar.cropArea
         scaleX == RDiv(d.w, d.dispW)
         scaleY == RDiv(d.h, d.dispH)
     IN  avatar' = [avatar EXCEPT !.canvas =
           [drawn |-> TRUE,
            src |-> [srcX |-> RMul(RSub(c.x, d.offsetX), scaleX),
                      srcY |-> RMul(RSub(c.y, d.offsetY), scaleY),
                      srcW |-> RMul(c.size, RMin(scaleX, scaleY)),
                      srcH |-> RMul(c.size, RMin(scaleX, scaleY))],
            width |-> AvatarOutputSize, height |-> AvatarOutputSize]]
  /\ UNCHANGED <<cropperVars, canvas, pageVars>>

Next ==
  \/ ImgOnload
  \/ WindowResize
  \/ \E px \in PointerXs, py \in PointerYs : handlePointerDown(px, py)
  \/ \E px \in PointerXs, py \in PointerYs : handlePointerMove(px, py)
  \/ handlePointerUp

Spec == Init /\ [][Next]_vars

\* calcDims alone, over a wider range of containers, images and ratios.
CalcWidths == {240, 300, 360, 420, 512}
CalcImages == {<<2000, 2000>>, <<100, 1000>>, <<1600, 900>>, <<900, 1600>>,
               <<3000, 200>>}
CalcAspectRatios == {<<1, 1>>, <<4, 5>>, <<16, 9>>, <<1, 3>>}

InitCalc == InitWith(CalcAspectRatios, CalcWidths) /\ RestInit

NextCalc == ImgOnloadOf(CalcImages) \/ WindowResizeTo(CalcWidths)

SpecCalc == InitCalc /\ [][NextCalc]_vars

\* The cropper with its Crop button, and the avatar cropper's export.
ExportImages == {<<1400, 1400>>}
\* Pointer positions <<x, y>>: the corners of the initial region of a square
\* image, the corners of the displayed image, and a point of the region body.
ExportPointers == {<<30, 90>>, <<0, 60>>, <<270, 330>>, <<300, 360>>,
                   <<150, 200>>}
AvatarImages == {<<300, 200>>}

InitExport == Init

NextExport ==
  \/ ImgOnloadOf(ExportImages)
  \/ WindowResize
  \/ \E p \in ExportPointers : handlePointerDown(p[1], p[2])
  \/ \E p \in ExportPointers : handlePointerMove(p[1], p[2])
  \/ handlePointerUp
  \/ handleCrop
  \/ AvatarImgOnloadOf(AvatarImages, ContainerWidths)
  \/ avatarHandleCrop

SpecExport == InitExport /\ [][NextExport]_vars

\* ---------------------------------------------------------------------------
\* Vocabulary of the properties
\* ---------------------------------------------------------------------------

Loaded == imgRef # NULL

\* The state right after a pointer-move step handled with an active drag.
DragStep == lastEvent.op = "drag"

ResizeModes == DragModes \ {"move"}
CornerModes == {"resize-tl", "resize-tr", "resize-bl", "resize-br"}
EdgeModes   == {"resize-t", "resize-b", "resize-l", "resize-r"}

\* Pointer displacement since the press, for the step that just ran.
StepDx == RSub(Num(lastEvent.px), dragStart.x)
StepDy == RSub(Num(lastEvent.py), dragStart.y)

Right(r)  == RAdd(r.x, r.w)
Bottom(r) == RAdd(r.y, r.h)
ImgRight(d)  == RAdd(d.offsetX, d.dispW)
ImgBottom(d) == RAdd(d.offsetY, d.dispH)

Inside(r, d) ==
  /\ RLe(d.offsetX, r.x)
  /\ RLe(Right(r), ImgRight(d))
  /\ RLe(d.offsetY, r.y)
  /\ RLe(Bottom(r), ImgBottom(d))

Tolerance == <<1, 1000>>

HasRatio(r, ar) == RLe(RAbs(RSub(r.w, RMul(r.h, ar))), Tolerance)

\* ---------------------------------------------------------------------------
\* C1
\* ---------------------------------------------------------------------------

\* C1: after every pointer-move step of a drag on a loaded image, in move mode
\* or with any resize handle, width = height * aspectRatio within 1e-3.
C1_AspectRatioKept == (Loaded /\ DragStep) => HasRatio(cropArea, aspectRatio)

\* A resize step of a second session changed the size of a 4:5 region.
C1_Witness ==
  /\ Loaded /\ DragStep
  /\ dragMode \in ResizeModes
  /\ aspectRatio = <<4, 5>>
  /\ cropArea.w # cropStart.w
  /\ steps = 4

\* ---------------------------------------------------------------------------
\* C2
\* ---------------------------------------------------------------------------

\* C2: after every pointer-move step of a drag (move or any resize handle) the
\* crop region lies fully inside the displayed image.
C2_Containment == (Loaded /\ DragStep) => Inside(cropArea, imgDims)

\* Violated: a press taken before calcDims runs (before the image has loaded,
\* or before the 50 ms timer or a window resize recomputes the region) leaves
\* cropStart behind; the move branch then clamps x and y with cropStart.w/h
\* while the region keeps the new w/h.

\* ---------------------------------------------------------------------------
\* C3
\* ---------------------------------------------------------------------------

Clamp(v, lo, hi) == RMax(lo, RMin(hi, v))

MoveStepTaken == Loaded /\ dragMode = "move" /\ lastEvent'.op = "drag"

\* C3: a move-mode step translates the press-time region by the pointer
\* displacement, clamps x to [offsetX, offsetX + dispW - w] and y to
\* [offsetY, offsetY + dispH - h], and leaves width and height unchanged; a
\* displacement that would push x below offsetX yields x = offsetX.
C3_MoveClamps ==
  [][MoveStepTaken =>
       LET dx == RSub(Num(lastEvent'.px), dragStart.x)
           dy == RSub(Num(lastEvent'.py), dragStart.y)
       IN  /\ cropArea'.w = cropArea.w
           /\ cropArea'.h = cropArea.h
           /\ cropArea'.x = Clamp(RAdd(cropStart.x, dx), imgDims.offsetX,
                                  RSub(ImgRight(imgDims), cropArea.w))
           /\ cropArea'.y = Clamp(RAdd(cropStart.y, dy), imgDims.offsetY,
                                  RSub(ImgBottom(imgDims), cropArea.h))
           /\ (RLt(RAdd(cropStart.x, dx), imgDims.offsetX)
                 => cropArea'.x = imgDims.offsetX)]_vars

\* ---------------------------------------------------------------------------
\* C4
\* ---------------------------------------------------------------------------

\* The width a resize step asks for before any bound is applied.
RawWidth(mode, cs, dx, dy, ar) ==
  CASE mode \in {"resize-br", "resize-tr", "resize-r"} -> RAdd(cs.w, dx)
    [] mode \in {"resize-bl", "resize-tl", "resize-l"} -> RSub(cs.w, dx)
    [] mode = "resize-b" -> RMul(RAdd(cs.h, dy), ar)
    [] mode = "resize-t" -> RMul(RSub(cs.h, dy), ar)

StepRawWidth == RawWidth(dragMode, cropStart, StepDx, StepDy, aspectRatio)

MinWidth  == Num(MIN_CROP_SIZE)
MinHeight == RDiv(Num(MIN_CROP_SIZE), aspectRatio)

\* The region the bottom-right handle asks for.
GrownBR ==
  LET w == RAdd(cropStart.w, StepDx)
  IN  Region(cropStart.x, cropStart.y, w, RDiv(w, aspectRatio))

BRStep == Loaded /\ DragStep /\ dragMode = "resize-br"

BoundsAllowGrowth == RGe(StepDx, Zero) /\ Inside(GrownBR, imgDims)

\* C4 as stated: a bottom-right resize by (dx, dy) that the image bounds allow
\* yields width = startWidth + dx, height = width / aspectRatio, x and y
\* unchanged, dy ignored.
C4_Original == (BRStep /\ BoundsAllowGrowth) => cropArea = GrownBR

\* C4 amended: the same, provided startWidth + dx is at least the 60-pixel
\* minimum width.
C4_BottomRightGrowth ==
  (BRStep /\ BoundsAllowGrowth /\ RGe(GrownBR.w, MinWidth)) => cropArea = GrownBR

\* A bottom-right drag with dx > 0 and dy # 0 grew the region inside the image.
C4_Witness ==
  /\ BRStep /\ BoundsAllowGrowth /\ RGe(GrownBR.w, MinWidth)
  /\ RGt(StepDx, Zero)
  /\ StepDy # Zero
  /\ cropArea.w = RAdd(cropStart.w, StepDx)

\* ---------------------------------------------------------------------------
\* C5
\* ---------------------------------------------------------------------------

ResizeStep == Loaded /\ DragStep /\ dragMode \in ResizeModes

\* The press-time region lies inside the displayed image, has the configured
\* ratio and is at least 60 pixels wide.
ValidStart ==
  /\ Inside(cropStart, imgDims)
  /\ cropStart.w = RMul(cropStart.h, aspectRatio)
  /\ RGe(cropStart.w, MinWidth)

IsMinimal(r) == r.w = MinWidth /\ r.h = MinHeight

\* C5 as stated: with any resize handle, a displacement that would drive the
\* width below 60 yields width exactly 60 and height exactly 60 / aspectRatio.
C5_Original == (ResizeStep /\ RLt(StepRawWidth, MinWidth)) => IsMinimal(cropArea)

\* C5 amended: the same, when the press-time region lies inside the displayed
\* image with the configured ratio and is itself at least 60 pixels wide.
C5_ClampToMinimum ==
  (ResizeStep /\ ValidStart /\ RLt(StepRawWidth, MinWidth)) => IsMinimal(cropArea)

\* An edge handle was dragged inwards past the minimum on a 4:5 region.
C5_Witness ==
  /\ ResizeStep /\ ValidStart /\ RLt(StepRawWidth, MinWidth)
  /\ dragMode \in EdgeModes
  /\ aspectRatio = <<4, 5>>
  /\ RGt(cropStart.w, MinWidth)
  /\ IsMinimal(cropArea)

\* ---------------------------------------------------------------------------
\* C6
\* ---------------------------------------------------------------------------

\* Space between the anchored edge or corner and the image bound the handle
\* grows towards.
AvailableWidth(mode, cs, d) ==
  IF mode \in {"resize-br", "resize-tr", "resize-r"}
    THEN RSub(ImgRight(d), cs.x)
    ELSE RSub(Right(cs), d.offsetX)

AvailableHeight(mode, cs, d) ==
  IF mode \in {"resize-br", "resize-bl", "resize-b"}
    THEN RSub(ImgBottom(d), cs.y)
    ELSE RSub(Bottom(cs), d.offsetY)

GrowsInX(mode) == mode \in CornerModes \cup {"resize-l", "resize-r"}
GrowsInY(mode) == mode \in CornerModes \cup {"resize-t", "resize-b"}

WithinAvailable(r, mode, cs, d) ==
  /\ GrowsInX(mode) => RLe(r.w, AvailableWidth(mode, cs, d))
  /\ GrowsInY(mode) => RLe(r.h, AvailableHeight(mode, cs, d))

\* C6 as stated: after every resize step neither width nor height is below 60,
\* and neither exceeds the space between the anchor and the image bound in the
\* direction of growth.
C6_Original ==
  ResizeStep =>
    /\ RGe(cropArea.w, MinWidth)
    /\ RGe(cropArea.h, MinWidth)
    /\ WithinAvailable(cropArea, dragMode, cropStart, imgDims)

\* C6 amended: when the press-time region lies inside the displayed image with
\* the configured ratio and is at least 60 wide, after every resize step the
\* width is at least 60, the height at least 60 / aspectRatio, and neither
\* exceeds the space between the anchor and the image bound.
C6_SizeBounds ==
  (ResizeStep /\ ValidStart) =>
    /\ RGe(cropArea.w, MinWidth)
    /\ RGe(cropArea.h, MinHeight)
    /\ WithinAvailable(cropArea, dragMode, cropStart, imgDims)

\* A corner handle was dragged outwards until the image bound stopped it.
C6_Witness ==
  /\ ResizeStep /\ ValidStart
  /\ dragMode \in CornerModes
  /\ RGt(StepRawWidth, AvailableWidth(dragMode, cropStart, imgDims))
  /\ RGt(cropArea.w, cropStart.w)

\* ---------------------------------------------------------------------------
\* C7
\* ---------------------------------------------------------------------------

AnchorX(mode, r) == IF mode \in {"resize-br", "resize-tr"} THEN r.x ELSE Right(r)
AnchorY(mode, r) == IF mode \in {"resize-br", "resize-bl"} THEN r.y ELSE Bottom(r)

CornerStep == Loaded /\ DragStep /\ dragMode \in CornerModes

\* C7: during a corner-handle resize the corner diagonally opposite the
\* handle stays at its press-time position after every pointer-move step.
C7_OppositeCornerFixed ==
  CornerStep =>
    /\ AnchorX(dragMode, cropArea) = AnchorX(dragMode, cropStart)
    /\ AnchorY(dragMode, cropArea) = AnchorY(dragMode, cropStart)

\* Violated on an image displayed narrower than 60 pixels: the minimum width
\* wins over the space left of the anchor, the region is pushed back inside
\* the image and the anchored corner moves with it.

\* ---------------------------------------------------------------------------
\* C8
\* ---------------------------------------------------------------------------

CenterX(r) == RAdd(r.x, RDiv(r.w, Two))
CenterY(r) == RAdd(r.y, RDiv(r.h, Two))

EdgeStep == Loaded /\ DragStep /\ dragMode \in EdgeModes

OppositeEdgeFixed ==
  CASE dragMode = "resize-r" -> cropArea.x = cropStart.x
    [] dragMode = "resize-l" -> Right(cropArea) = Right(cropStart)
    [] dragMode = "resize-b" -> cropArea.y = cropStart.y
    [] dragMode = "resize-t" -> Bottom(cropArea) = Bottom(cropStart)
    [] OTHER -> TRUE

PerpendicularCenterFixed ==
  IF dragMode \in {"resize-l", "resize-r"}
    THEN CenterY(cropArea) = CenterY(cropStart)
    ELSE CenterX(cropArea) = CenterX(cropStart)

\* C8: during an edge-handle resize the opposite edge stays at its press-time
\* position and the centre along the perpendicular axis stays at its
\* press-time value after every pointer-move step.
C8_OppositeEdgeAndCenterFixed ==
  EdgeStep => (OppositeEdgeFixed /\ PerpendicularCenterFixed)

\* Violated: the clamp that follows the switch moves y (or x) back inside the
\* image without re-centring, and when it shrinks the region it keeps the x
\* (or y) that resize-l (or resize-t) computed for the larger size.

\* ---------------------------------------------------------------------------
\* C9
\* ---------------------------------------------------------------------------

ResizeStepTaken == Loaded /\ dragMode \in ResizeModes /\ lastEvent'.op = "drag"

RawWidthTaken ==
  RawWidth(dragMode, cropStart, RSub(Num(lastEvent'.px), dragStart.x),
           RSub(Num(lastEvent'.py), dragStart.y), aspectRatio)

Centred(r, d) ==
  /\ RSub(r.x, d.offsetX) = RSub(ImgRight(d), Right(r))
  /\ RSub(r.y, d.offsetY) = RSub(ImgBottom(d), Bottom(r))

LimitingDimensionIs80Percent(r, d, ar) ==
  IF RGt(RDiv(d.dispW, d.dispH), ar)
    THEN r.h = RMul(d.dispH, <<4, 5>>)
    ELSE r.w = RMul(d.dispW, <<4, 5>>)

\* C10: right after calcDims (image load or container resize) the crop region
\* has the configured ratio, is centred in the displayed image, lies inside it,
\* and its limiting dimension is 80% of the displayed image's: the height when
\* dispW / dispH > aspectRatio, otherwise the width.
C10_InitialRegion ==
  (Loaded /\ lastEvent.op = "calcDims") =>
    /\ cropArea.w = RMul(cropArea.h, aspectRatio)
    /\ Centred(cropArea, imgDims)
    /\ Inside(cropArea, imgDims)
    /\ LimitingDimensionIs80Percent(cropArea, imgDims, aspectRatio)

\* A height-limited region after a container resize, and a width-limited one.
C10_Witness ==
  /\ Loaded /\ lastEvent.op = "calcDims"
  /\ RGt(RDiv(imgDims.dispW, imgDims.dispH), aspectRatio)
  /\ cropArea.h = RMul(imgDims.dispH, <<4, 5>>)
  /\ aspectRatio = <<4, 5>>
  /\ clientWidth = 512

\* ---------------------------------------------------------------------------
\* C11 - C13: export
\* ---------------------------------------------------------------------------

\* The state right after handleCrop of the aspect-ratio cropper: the canvas
\* was filled from the current cropArea and imgDims.
CropStep == lastEvent.op = "crop"

FullDisplayed(d) == Region(d.offsetX, d.offsetY, d.dispW, d.dispH)

WithinOne(a, b) == RLe(RAbs(RSub(a, b)), Num(1))

\* Width of the selected region in source pixels, from the image's natural
\* width and the displayed width.
SourceCropWidth == RDiv(RMul(cropArea.w, Num(imgRef[1])), imgDims.dispW)

Min(a, b) == IF a < b THEN a ELSE b

\* C11: when the region exported is the whole displayed image, the source
\* rectangle is (0, 0, naturalWidth, naturalHeight) within one pixel.
C11_FullRegionMapsToNatural ==
  (CropStep /\ cropArea = FullDisplayed(imgDims)) =>
    /\ WithinOne(canvas.src.srcX, Zero)
    /\ WithinOne(canvas.src.srcY, Zero)
    /\ WithinOne(canvas.src.srcW, Num(imgRef[1]))
    /\ WithinOne(canvas.src.srcH, Num(imgRef[2]))

\* The region was enlarged by two corner drags to the whole letterboxed image
\* (offsetY = 60) and exported.
C11_Witness ==
  /\ CropStep
  /\ cropArea = FullDisplayed(imgDims)
  /\ RGt(imgDims.offsetY, Zero)
  /\ steps = 4

\* C12: every export, of the aspect-ratio cropper and of the avatar cropper,
\* is at most 1080 pixels wide.
C12_WidthAtMost1080 ==
  /\ canvas.drawn => canvas.width <= 1080
  /\ avatar.canvas.drawn => avatar.canvas.width <= 1080

\* An export of a selection wider than 1080 source pixels.
C12_Witness ==
  /\ CropStep
  /\ RGt(SourceCropWidth, Num(1080))
  /\ canvas.width = 1080
  /\ avatar.canvas.drawn

\* C13 as stated: the exported width is min(1080, source crop width), the
\* height is that width divided by the aspect ratio, rounded, and no export is
\* wider than its source crop. Violated by the avatar cropper, which exports a
\* 160-pixel source crop 400 pixels wide.
C13_Original ==
  /\ CropStep =>
       /\ Num(canvas.width) = RMin(Num(1080), SourceCropWidth)
       /\ canvas.height = Round(RDiv(Num(canvas.width), aspectRatio))
  /\ avatar.canvas.drawn =>
       /\ Num(avatar.canvas.width) = RMin(Num(1080), avatar.canvas.src.srcW)
       /\ RLe(Num(avatar.canvas.width), avatar.canvas.src.srcW)

\* C13 (amended): the aspect-ratio cropper exports min(1080, round(source crop
\* width)) by round(width / aspectRatio) pixels, so it widens a source crop by
\* less than one pixel; the avatar cropper always exports 400 x 400 pixels.
C13_ExportSize ==
  /\ CropStep =>
       /\ canvas.width = Min(1080, Round(SourceCropWidth))
       /\ canvas.height = Round(RDiv(Num(canvas.width), aspectRatio))
       /\ RLt(Num(canvas.width), RAdd(SourceCropWidth, Num(1)))
  /\ avatar.canvas.drawn =>
       /\ avatar.canvas.width = 400
       /\ avatar.canvas.height = 400

\* A 4:5 export narrower than 1080 pixels, and an avatar export upscaled from
\* a source crop narrower than 400 pixels.
C13_Witness ==
  /\ CropStep
  /\ aspectRatio = <<4, 5>>
  /\ canvas.width < 1080
  /\ canvas.height > canvas.width
  /\ avatar.canvas.drawn
  /\ RLt(avatar.canvas.src.srcW, Num(400))

\* ---------------------------------------------------------------------------
\* C14
\* ---------------------------------------------------------------------------

Band == Num(18)

CornerX(r, m) == IF m \in {"resize-tl", "resize-bl"} THEN r.x ELSE Right(r)
CornerY(r, m) == IF m \in {"resize-tl", "resize-tr"} THEN r.y ELSE Bottom(r)

\* (px, py) is less than 18 pixels from corner m on both axes.
InCornerBand(r, m, px, py) ==
  /\ RLt(RAbs(RSub(px, CornerX(r, m))), Band)
  /\ RLt(RAbs(RSub(py, CornerY(r, m))), Band)

\* (px, py) is less than 18 pixels from the line of edge m, along the edge
\* extended by 18 pixels at both ends.
InEdgeBand(r, m, px, py) ==
  CASE m = "resize-t" ->
         /\ RLt(RAbs(RSub(py, r.y)), Band)
         /\ RLe(RSub(r.x, Band), px) /\ RLe(px, RAdd(Right(r), Band))
    [] m = "resize-b" ->
         /\ RLt(RAbs(RSub(py, Bottom(r))), Band)
         /\ RLe(RSub(r.x, Band), px) /\ RLe(px, RAdd(Right(r), Band))
    [] m = "resize-l" ->
         /\ RLt(RAbs(RSub(px, r.x)), Band)
         /\ RLe(RSub(r.y, Band), py) /\ RLe(py, RAdd(Bottom(r), Band))
    [] m = "resize-r" ->
         /\ RLt(RAbs(RSub(px, Right(r))), Band)
         /\ RLe(RSub(r.y, Band), py) /\ RLe(py, RAdd(Bottom(r), Band))

InRegion(r, px, py) ==
  /\ RLe(r.x, px) /\ RLe(px, Right(r))
  /\ RLe(r.y, py) /\ RLe(py, Bottom(r))

\* The modes the classification rule allows at (px, py): a corner whose band
\* holds the point; failing that an edge whose band holds it; failing that
\* 'move' inside the region; otherwise none.
ClaimedModes(r, px, py) ==
  LET corners == {m \in CornerModes : InCornerBand(r, m, px, py)}
      edges   == {m \in EdgeModes : InEdgeBand(r, m, px, py)}
  IN  IF corners # {} THEN corners
      ELSE IF edges # {} THEN edges
      ELSE IF InRegion(r, px, py) THEN {"move"}
      ELSE {NULL}

\* What a press at (px, py) does to the drag session, given the mode m the
\* rule allows there.
PressStarts(m, px, py) ==
  IF m = NULL
    THEN UNCHANGED <<dragMode, dragStart, cropStart, cropArea>>
    ELSE /\ dragMode' = m
         /\ dragStart' = [x |-> Num(px), y |-> Num(py)]

\* A step of the press counter that is not a drag pointer-move: a press.
PressStep == steps' = steps + 1 /\ lastEvent'.op # "drag"

\* The step either recorded (px, py) as the press position or recorded nothing.
PressCouldBeAt(px, py) ==
  \/ dragStart' = [x |-> Num(px), y |-> Num(py)]
  \/ UNCHANGED <<dragMode, dragStart, cropStart>>

\* C14: a press at any position records exactly one mode, the one of the
\* corner or edge band holding the position, 'move' in the region body, and
\* starts no drag at a position outside the region and its bands.
C14_Classification ==
  [][PressStep =>
       \A px \in PointerXs, py \in PointerYs :
         (PressCouldBeAt(px, py) /\ handlePointerDown(px, py)) =>
           \E m \in ClaimedModes(cropArea, Num(px), Num(py)) :
             PressStarts(m, px, py)]_vars

\* A press on the left-edge handle of the region of a loaded image, after a
\* press outside region and bands that started nothing.
C14_Witness ==
  /\ Loaded
  /\ dragMode = "resize-l"
  /\ cropStart = cropArea
  /\ steps = 2
  /\ lastEvent.op = "other"

\* ---------------------------------------------------------------------------
\* C15
\* ---------------------------------------------------------------------------

SessionState == <<dragMode, dragStart, cropStart>>

\* A session starts, or its recorded state changes, only by a press at a
\* position with a mode; the press records that mode, the position and the
\* region as it is at the press.
SessionStartsAtPress ==
  (dragMode' # NULL /\ SessionState' # SessionState) =>
    /\ PressStep
    /\ dragMode' \in ClaimedModes(cropArea, dragStart'.x, dragStart'.y)
    /\ cropStart' = cropArea
    /\ cropArea' = cropArea

\* A pointer-move during a session sets the region to the geometry
\* computation's result for the recorded press state and keeps the session.
MoveIsForwarded ==
  \A px \in PointerXs, py \in PointerYs :
    (dragMode # NULL /\ lastEvent' = Event("drag", px, py)) =>
      /\ cropArea' = dragCrop(dragMode, cropArea, cropStart, dragStart,
                              px, py, imgDims, aspectRatio)
      /\ SessionState' = SessionState

\* The mode becomes null only by a release, and every release makes it null
\* without touching the region.
ReleaseEndsSession ==
  /\ handlePointerUp => (dragMode' = NULL /\ cropArea' = cropArea)
  /\ (dragMode # NULL /\ dragMode' = NULL) => handlePointerUp

\* Without a session only calcDims changes the region; no move does.
RegionKeptWithoutSession ==
  (dragMode = NULL /\ cropArea' # cropArea) => lastEvent'.op = "calcDims"

\* C15: a drag session starts only at a press that classifies into a mode and
\* records mode, pointer position and region; every pointer-move of the session
\* goes through the geometry computation; release (or pointer-leave) sets the
\* mode to null, after which no pointer-move changes the region until a press.
C15_DragSession ==
  [][/\ SessionStartsAtPress
     /\ MoveIsForwarded
     /\ ReleaseEndsSession
     /\ RegionKeptWithoutSession]_vars

\* After a session that resized the region and was released, a hover over the
\* region body (cursor 'grab') left the resized region as it was.
C15_Witness ==
  /\ Loaded
  /\ dragMode = NULL
  /\ cursorStyle = "grab"
  /\ cropStart.w # Zero
  /\ cropArea.w # cropStart.w
  /\ cropArea # calcCropArea(imgDims, aspectRatio)
  /\ lastEvent.op = "other"

\* ---------------------------------------------------------------------------
\* C16
\* ---------------------------------------------------------------------------

\* The cursor affordance of a mode: 'grab' for the body, the resize cursor
\* along the handle's direction, 'default' for no mode.
CursorOf(m) ==
  IF m = NULL THEN "default"
  ELSE IF m = "move" THEN "grab"
  ELSE IF m \in {"resize-l", "resize-r"} THEN "ew-resize"
  ELSE IF m \in {"resize-t", "resize-b"} THEN "ns-resize"
  ELSE IF m \in {"resize-tl", "resize-br"} THEN "nwse-resize"
  ELSE "nesw-resize"

ClaimedCursors(r, px, py) == {CursorOf(m) : m \in ClaimedModes(r, px, py)}

\* The cursor a hover at (px, py) sets.
HoverCursor(px, py) == getCursor(detectMode(cropArea, Num(px), Num(py)))

\* Wherever the pointer hovers, the cursor set is the one of the mode there.
HoverCursorMatches ==
  dragMode = NULL =>
    \A px \in PointerXs, py \in PointerYs :
      HoverCursor(px, py) \in ClaimedCursors(cropArea, Num(px), Num(py))

\* A step taken without a session that is neither a press nor calcDims (a
\* hover, or a release with nothing to release) changes nothing but the cursor.
HoverKeepsState ==
  (dragMode = NULL /\ steps' = steps /\ lastEvent'.op = "other") =>
    UNCHANGED <<cropArea, imgDims, dragMode, dragStart, cropStart, imgRef,
                imgLoaded, aspectRatio, restVars>>

\* A cursor other than 'default' that appears without a session is the one
\* matching the mode at some pointer position.
HoverSetsMatchingCursor ==
  (dragMode = NULL /\ dragMode' = NULL /\ cursorStyle' # cursorStyle
     /\ cursorStyle' # "default") =>
    \E px \in PointerXs, py \in PointerYs :
      /\ handlePointerMove(px, py)
      /\ cursorStyle' \in ClaimedCursors(cropArea, Num(px), Num(py))

\* C16: a pointer-move without an active drag leaves the crop region, the
\* display transform and the drag-session state unchanged and sets the cursor
\* to the one of the mode under the pointer: 'grab' over the body, the
\* directional resize cursor over a handle, 'default' elsewhere.
C16_HoverOnlySetsCursor ==
  /\ []HoverCursorMatches
  /\ [][HoverKeepsState /\ HoverSetsMatchingCursor]_vars

\* After a released drag that changed the region, a hover over the left or
\* right handle set the horizontal resize cursor.
C16_Witness ==
  /\ Loaded
  /\ dragMode = NULL
  /\ cursorStyle = "ew-resize"
  /\ cropArea # calcCropArea(imgDims, aspectRatio)
  /\ steps >= 2

\* ---------------------------------------------------------------------------
\* App (part_003): unread badges, polling, realtime notifications, navigation
\* ---------------------------------------------------------------------------

CanFetchMessages == inflight.msgNext <= MaxFetches
CanFetchGroups   == inflight.grpNext <= MaxFetches

\* fetchUnreadMessages up to its await: the count query is sent.
fetchUnreadMessages(inf) ==
  [inf EXCEPT !.messages = @ \cup {MessageFetch(inf.msgNext, "sent", 0)},
              !.msgNext = @ + 1]

\* fetchUnreadGroups up to its first await: on the groups page nothing is
\* sent, otherwise the membership query is.
fetchUnreadGroups(a, inf) ==
  IF a.isOnGroupsPageRef
    THEN inf
    ELSE [inf EXCEPT !.groups = @ \cup {GroupFetch(inf.grpNext, "members", 0, 0)},
                     !.grpNext = @ + 1]

\* setGroupsLastRead: localStorage takes the current time.
setGroupsLastRead(a) == [a EXCEPT !.groupsLastRead = backend.now]

\* The 10-second interval callback.
PollTick ==
  /\ CanFetchMessages
  /\ app.isOnGroupsPageRef \/ CanFetchGroups
  /\ inflight' = fetchUnreadGroups(app, fetchUnreadMessages(inflight))
  /\ UNCHANGED <<app, backend>>
  /\ UNCHANGED <<cropperVars, canvas, avatar, appLog, messagesPage, contactFetches, otherPages>>

\* The database evaluates the count of unread messages of one query.
ServerCountsMessages ==
  /\ \E f \in inflight.messages :
       /\ f.stage = "sent"
       /\ inflight' = [inflight EXCEPT !.messages =
            (@ \ {f}) \cup {MessageFetch(f.id, "answered", backend.unread)}]
  /\ UNCHANGED <<app, backend>>
  /\ UNCHANGED <<cropperVars, canvas, avatar, appLog, messagesPage, contactFetches, otherPages>>

\* The log after the response of fetch f has been handled.
Completed(f) ==
  [id |-> f.id, count |-> f.count,
   earlier |-> IF appLog.id = 0 THEN {} ELSE appLog.earlier \cup {appLog.id}]

DoneIds == IF appLog.id = 0 THEN {} ELSE appLog.earlier \cup {appLog.id}

\* fetchUnreadMessagesDone that drops the response of a fetch issued before
\* one that has already completed.
fetchUnreadMessagesDone_dropsStale ==
  /\ \E f \in inflight.messages :
       /\ f.stage = "answered"
       /\ app' = IF \E i \in DoneIds : i > f.id
                   THEN app
                   ELSE [app EXCEPT !.unreadMessages = f.count]
       /\ inflight' = [inflight EXCEPT !.messages = @ \ {f}]
       /\ appLog' = Completed(f)
  /\ UNCHANGED backend
  /\ UNCHANGED <<cropperVars, canvas, avatar, messagesPage, contactFetches, otherPages>>

\* fetchUnreadMessages after its await: setUnreadMessages(count || 0).
fetchUnreadMessagesDone ==
  /\ \E f \in inflight.messages :
       /\ f.stage = "answered"
       /\ app' = [app EXCEPT !.unreadMessages = f.count]
       /\ inflight' = [inflight EXCEPT !.messages = @ \ {f}]
       /\ appLog' = Completed(f)
  /\ UNCHANGED backend
  /\ UNCHANGED <<cropperVars, canvas, avatar, messagesPage, contactFetches, otherPages>>

\* fetchUnreadGroups after the membership query: no membership sets the badge
\* to 0; otherwise last_read is taken from localStorage and the count query sent.
fetchUnreadGroupsMembers ==
  /\ \E f \in inflight.groups :
       /\ f.stage = "members"
       /\ IF backend.isMember
            THEN /\ inflight' = [inflight EXCEPT !.groups = (@ \ {f}) \cup
                      {GroupFetch(f.id, "count", app.groupsLastRead, 0)}]
                 /\ app' = app
            ELSE /\ inflight' = [inflight EXCEPT !.groups = @ \ {f}]
                 /\ app' = [app EXCEPT !.unreadGroups = 0]
  /\ UNCHANGED backend
  /\ UNCHANGED <<cropperVars, canvas, avatar, appLog, messagesPage, contactFetches, otherPages>>

\* Group messages of other users (those the database keeps in groupMessages,
\* by creation time) created after lastRead.
UnreadGroupCount(lastRead) ==
  Cardinality({at \in backend.groupMessages : at > lastRead})

\* The database evaluates the count of one group-messages query.
ServerCountsGroups ==
  /\ \E f \in inflight.groups :
       /\ f.stage = "count"
       /\ inflight' = [inflight EXCEPT !.groups = (@ \ {f}) \cup
            {GroupFetch(f.id, "answered", f.lastRead, UnreadGroupCount(f.lastRead))}]
  /\ UNCHANGED <<app, backend>>
  /\ UNCHANGED <<cropperVars, canvas, avatar, appLog, messagesPage, contactFetches, otherPages>>

\* fetchUnreadGroups after the count query: setUnreadGroups(count || 0).
fetchUnreadGroupsDone ==
  /\ \E f \in inflight.groups :
       /\ f.stage = "answered"
       /\ app' = [app EXCEPT !.unreadGroups = f.count]
       /\ inflight' = [inflight EXCEPT !.groups = @ \ {f}]
  /\ UNCHANGED backend
  /\ UNCHANGED <<cropperVars, canvas, avatar, appLog, messagesPage, contactFetches, otherPages>>

\* A direct message for the user is inserted; the messages-notification
\* channel's INSERT handler calls fetchUnreadMessages.
MessageInsert ==
  /\ backend.unread < MaxUnread
  /\ CanFetchMessages
  /\ backend' = [backend EXCEPT !.unread = @ + 1]
  /\ inflight' = fetchUnreadMessages(inflight)
  /\ UNCHANGED app
  /\ UNCHANGED <<cropperVars, canvas, avatar, appLog, messagesPage, contactFetches, otherPages>>

\* A message of the user is marked read; the UPDATE handler calls
\* fetchUnreadMessages.
MessageUpdate ==
  /\ backend.unread > 0
  /\ CanFetchMessages
  /\ backend' = [backend EXCEPT !.unread = @ - 1]
  /\ inflight' = fetchUnreadMessages(inflight)
  /\ UNCHANGED app
  /\ UNCHANGED <<cropperVars, canvas, avatar, appLog, messagesPage, contactFetches, otherPages>>

\* A group message is inserted; the groups-notification channel's handler.
GroupMessageInsert(own) ==
  /\ own \/ app.isOnGroupsPageRef \/ CanFetchGroups
  /\ backend' = IF own
                  THEN backend
                  ELSE [backend EXCEPT !.groupMessages = @ \cup {backend.now}]
  /\ IF own
       THEN UNCHANGED <<app, inflight>>
       ELSE IF app.isOnGroupsPageRef
         THEN /\ app' = [setGroupsLastRead(app) EXCEPT !.unreadGroups = 0]
              /\ UNCHANGED inflight
         ELSE /\ inflight' = fetchUnreadGroups(app, inflight)
              /\ UNCHANGED app
  /\ UNCHANGED <<cropperVars, canvas, avatar, appLog, messagesPage, contactFetches, otherPages>>

\* The effect on [currentPage, currentUser], run after a page change.
pageEffect(a) ==
  LET a1 == IF a.currentPage = "messages"
              THEN [a EXCEPT !.unreadMessages = 0] ELSE a
  IN  IF a1.currentPage = "groups"
        THEN [setGroupsLastRead(a1) EXCEPT !.isOnGroupsPageRef = TRUE,
                                           !.unreadGroups = 0]
        ELSE [(IF a1.isOnGroupsPageRef THEN setGroupsLastRead(a1) ELSE a1)
                EXCEPT !.isOnGroupsPageRef = FALSE]

handleNavClick_keepsTarget(page) ==
  /\ IF app.currentPage = page
       THEN app' =
              LET a1 == IF page = "profile"
                          THEN [app EXCEPT !.viewingUser = NULL] ELSE app
                  a2 == IF page = "messages"
                          THEN [a1 EXCEPT !.chatTarget = NULL] ELSE a1
              IN  IF page = "groups"
                    THEN [setGroupsLastRead(a2) EXCEPT !.unreadGroups = 0]
                    ELSE a2
       ELSE app' =
              LET a1 == [app EXCEPT !.currentPage = page]
                  a2 == IF page = "profile"
                          THEN [a1 EXCEPT !.viewingUser = NULL] ELSE a1
              IN  pageEffect(a2)
  /\ UNCHANGED <<backend, inflight>>
  /\ UNCHANGED <<cropperVars, canvas, avatar, appLog, messagesPage, contactFetches, otherPages>>

\* handleNavClick, with the page effect its setCurrentPage triggers.
handleNavClick(page) ==
  /\ IF app.currentPage = page
       THEN app' =
              LET a1 == IF page = "profile"
                          THEN [app EXCEPT !.viewingUser = NULL] ELSE app
                  a2 == IF page = "messages"
                          THEN [a1 EXCEPT !.chatTarget = NULL] ELSE a1
              IN  IF page = "groups"
                    THEN [setGroupsLastRead(a2) EXCEPT !.unreadGroups = 0]
                    ELSE a2
       ELSE app' =
              LET a1 == [app EXCEPT !.currentPage = page]
                  a2 == IF page = "profile"
                          THEN [a1 EXCEPT !.viewingUser = NULL] ELSE a1
                  a3 == IF page # "messages"
                          THEN [a2 EXCEPT !.chatTarget = NULL] ELSE a2
              IN  pageEffect(a3)
  /\ UNCHANGED <<backend, inflight>>
  /\ UNCHANGED <<cropperVars, canvas, avatar, appLog, messagesPage, contactFetches, otherPages>>

\* Time passes.
ClockTick ==
  /\ backend.now < MaxTime
  /\ backend' = [backend EXCEPT !.now = @ + 1]
  /\ UNCHANGED <<app, inflight>>
  /\ UNCHANGED <<cropperVars, canvas, avatar, appLog, messagesPage, contactFetches, otherPages>>

\* App logged in, with no cropper dialog in use.
InitApp ==
  /\ InitWith({<<1, 1>>}, ContainerWidths)
  /\ canvas = EmptyCanvas
  /\ avatar = AvatarInit
  /\ PagesInitWith({0, 1}, BOOLEAN)

NextApp ==
  \/ PollTick
  \/ ServerCountsMessages
  \/ fetchUnreadMessagesDone
  \/ fetchUnreadGroupsMembers
  \/ ServerCountsGroups
  \/ fetchUnreadGroupsDone
  \/ MessageInsert
  \/ MessageUpdate
  \/ \E own \in BOOLEAN : GroupMessageInsert(own)
  \/ \E page \in Pages : handleNavClick(page)
  \/ ClockTick

SpecApp == InitApp /\ [][NextApp]_vars

\* ---------------------------------------------------------------------------
\* C17
\* ---------------------------------------------------------------------------

\* C17: every completion of a fetchUnreadMessages call replaces the displayed
\* unread count by that call's own result, also when a call issued after it
\* has completed before it.
C17_LastCompletionWins ==
  [][appLog' # appLog => app'.unreadMessages = appLog'.count]_vars

\* Two overlapping fetches completed in the reverse of their order of issue:
\* the badge shows the result of the one issued first, which is no longer the
\* database's count, and no further fetch is on its way.
C17_Witness ==
  /\ appLog.id # 0
  /\ \E i \in appLog.earlier : i > appLog.id
  /\ app.unreadMessages = appLog.count
  /\ app.unreadMessages # backend.unread
  /\ app.currentPage = "home"
  /\ inflight.messages = {}

\* ---------------------------------------------------------------------------
\* C18
\* ---------------------------------------------------------------------------

\* C18: while the current page is 'groups' the groups badge is 0, after
\* entering the page, a poll tick, a realtime group message and the completion
\* of any fetchUnreadGroups call. Violated: a call that passed its
\* isOnGroupsPageRef test before the page was entered sets the badge to its
\* count when it completes.
C18_GroupsBadgeZero == app.currentPage = "groups" => app.unreadGroups = 0

\* ---------------------------------------------------------------------------
\* MessagesPage (part_002): contact list, conversation deletion, long press
\* ---------------------------------------------------------------------------

\* Bound on the presses (each arms one timeout) of a run.
MaxPresses == 2

\* Bound on the fetchContacts calls in flight at once.
MaxContactFetches == 1

outsideMessages == <<cropperVars, canvas, avatar, app, inflight, appLog,
                     otherPages>>

ContactIds(contacts) == {c.id : c \in contacts}

SetMax(S) == CHOOSE t \in S : \A o \in S : o <= t

\* The list fetchContacts computes: every followed user and every user with a
\* message, each with the time of the last message created after the time
\* stored under deleted_convos (0 for none), filtered by the deleted-contact
\* rule. lastMessage and unread, which the filter does not read, are left out.
contactsResult(following, dms, deleted) ==
  LET allIds == following \cup {u \in Contacts : dms[u] # {}}
      visible(u) == IF deleted[u] # 0
                      THEN {t \in dms[u] : t > deleted[u]}
                      ELSE dms[u]
      lastTime(u) == IF visible(u) = {} THEN 0 ELSE SetMax(visible(u))
      shown(u) ==
        \/ deleted[u] = 0
        \/ lastTime(u) # 0 /\ lastTime(u) > deleted[u]
        \/ lastTime(u) = 0 /\ u \in following
  IN  {[id |-> u, lastTime |-> lastTime(u)] : u \in {v \in allIds : shown(v)}}

\* The mount effect and the 5-second interval: fetchContacts sends its queries.
fetchContacts ==
  /\ Cardinality(contactFetches) < MaxContactFetches
  /\ contactFetches' = contactFetches \cup {ContactFetch("sent", {})}
  /\ UNCHANGED <<messagesPage, backend>>
  /\ UNCHANGED outsideMessages

\* The queries of one fetchContacts call are answered; between them the call
\* reads deleted_convos from localStorage.
ContactsAnswered ==
  /\ \E f \in contactFetches :
       /\ f.stage = "sent"
       /\ contactFetches' = (contactFetches \ {f}) \cup
            {ContactFetch("answered",
               contactsResult(backend.following, backend.dms,
                              messagesPage.deletedConvos))}
  /\ UNCHANGED <<messagesPage, backend>>
  /\ UNCHANGED outsideMessages

\* fetchContacts after its last await: setContacts(filteredContacts).
fetchContactsDone ==
  /\ \E f \in contactFetches :
       /\ f.stage = "answered"
       /\ messagesPage' = [messagesPage EXCEPT !.contacts = f.result]
       /\ contactFetches' = contactFetches \ {f}
  /\ UNCHANGED backend
  /\ UNCHANGED outsideMessages

\* A direct message between the user and contact u is created.
DirectMessage(u) ==
  /\ backend' = [backend EXCEPT !.dms[u] = @ \cup {backend.now}]
  /\ UNCHANGED <<messagesPage, contactFetches>>
  /\ UNCHANGED outsideMessages

\* The contact rows are on screen and not covered by the delete popup.
RowsReachable ==
  /\ messagesPage.selectedUser = NULL
  /\ ~(messagesPage.showDeletePopup /\ messagesPage.longPressUser # NULL)

\* onMouseDown / onTouchStart of the row of contact u.
handleLongPressStart(u) ==
  /\ RowsReachable
  /\ u \in ContactIds(messagesPage.contacts)
  /\ messagesPage.nextTimer <= MaxPresses
  /\ messagesPage' = [messagesPage EXCEPT
       !.longPressTriggeredRef = FALSE,
       !.longPressTimerRef = messagesPage.nextTimer,
       !.timers = @ \cup {[id |-> messagesPage.nextTimer, user |-> u,
                           cancelled |-> FALSE]},
       !.held = @ \cup {messagesPage.nextTimer},
       !.nextTimer = @ + 1]
  /\ UNCHANGED <<backend, contactFetches>>
  /\ UNCHANGED outsideMessages

\* The body of handleLongPressEnd and of handleLongPressMove:
\* clearTimeout(longPressTimerRef.current) and reset of the ref.
clearLongPressTimer(m) ==
  IF m.longPressTimerRef # NoTimer
    THEN [m EXCEPT !.timers = {t \in @ : t.id # m.longPressTimerRef},
                   !.longPressTimerRef = NoTimer]
    ELSE m

\* The timeouts of m with those of the presses in ps marked as released or moved.
MarkCancelled(m, ps) ==
  [m EXCEPT !.timers =
     {[t EXCEPT !.cancelled = t.cancelled \/ t.id \in ps] : t \in @}]

\* Press p ends (mouse-up, mouse-leave, touch-end). The row's handler,
\* handleLongPressEnd, runs if the row receives the event: always while the
\* rows are reachable, possibly (a touch-end) while the popup covers them,
\* never in the chat view.
Release(p, handled) ==
  /\ p \in messagesPage.held
  /\ handled => messagesPage.selectedUser = NULL
  /\ RowsReachable => handled
  /\ messagesPage' =
       LET m == [MarkCancelled(messagesPage, {p}) EXCEPT !.held = @ \ {p}]
       IN  IF handled THEN clearLongPressTimer(m) ELSE m
  /\ UNCHANGED <<backend, contactFetches>>
  /\ UNCHANGED outsideMessages

\* A held touch p moves: handleLongPressMove.
TouchMove(p) ==
  /\ p \in messagesPage.held
  /\ messagesPage.selectedUser = NULL
  /\ messagesPage' = clearLongPressTimer(MarkCancelled(messagesPage, {p}))
  /\ UNCHANGED <<backend, contactFetches>>
  /\ UNCHANGED outsideMessages

\* The 600 ms timeout t armed by handleLongPressStart expires.
LongPressTimeout ==
  /\ \E t \in messagesPage.timers :
       messagesPage' = [messagesPage EXCEPT
         !.longPressTriggeredRef = TRUE,
         !.longPressUser = t.user,
         !.showDeletePopup = TRUE,
         !.timers = @ \ {t},
         !.opened = t]
  /\ UNCHANGED <<backend, contactFetches>>
  /\ UNCHANGED outsideMessages

\* onClick of the row of contact u.
RowClick(u) ==
  /\ RowsReachable
  /\ u \in ContactIds(messagesPage.contacts)
  /\ messagesPage' =
       IF messagesPage.longPressTriggeredRef
         THEN [messagesPage EXCEPT !.longPressTriggeredRef = FALSE]
         ELSE [messagesPage EXCEPT !.selectedUser = u]
  /\ UNCHANGED <<backend, contactFetches>>
  /\ UNCHANGED outsideMessages

\* The chat view's back button.
BackToList ==
  /\ messagesPage.selectedUser # NULL
  /\ messagesPage' = [messagesPage EXCEPT !.selectedUser = NULL]
  /\ UNCHANGED <<backend, contactFetches>>
  /\ UNCHANGED outsideMessages

\* The popup's backdrop and its cancel button.
ClosePopup ==
  /\ messagesPage.selectedUser = NULL
  /\ messagesPage.showDeletePopup /\ messagesPage.longPressUser # NULL
  /\ messagesPage' = [messagesPage EXCEPT !.showDeletePopup = FALSE,
                                          !.longPressUser = NULL]
  /\ UNCHANGED <<backend, contactFetches>>
  /\ UNCHANGED outsideMessages

\* The popup's delete button.
handleDeleteConversation ==
  /\ messagesPage.selectedUser = NULL
  /\ messagesPage.showDeletePopup /\ messagesPage.longPressUser # NULL
  /\ messagesPage' = [messagesPage EXCEPT
       !.deletedConvos[messagesPage.longPressUser] = backend.now,
       !.contacts = {c \in @ : c.id # messagesPage.longPressUser},
       !.showDeletePopup = FALSE,
       !.longPressUser = NULL]
  /\ UNCHANGED <<backend, contactFetches>>
  /\ UNCHANGED outsideMessages

\* MessagesPage mounted by a logged-in App: the mount effect has called
\* fetchContacts.
InitMessages ==
  /\ InitWith({<<1, 1>>}, ContainerWidths)
  /\ canvas = EmptyCanvas
  /\ avatar = AvatarInit
  /\ app = pageEffect([AppInit EXCEPT !.currentPage = "messages"])
  /\ backend = BackendIdle
  /\ OtherPagesInit
  /\ inflight = InflightInit
  /\ appLog = AppLogInit
  /\ messagesPage = MessagesPageInit
  /\ contactFetches = {ContactFetch("sent", {})}

NextMessages ==
  \/ fetchContacts
  \/ ContactsAnswered
  \/ fetchContactsDone
  \/ \E u \in Contacts : DirectMessage(u)
  \/ \E u \in Contacts : handleLongPressStart(u)
  \/ \E p \in 1..MaxPresses, handled \in BOOLEAN : Release(p, handled)
  \/ \E p \in 1..MaxPresses : TouchMove(p)
  \/ LongPressTimeout
  \/ \E u \in Contacts : RowClick(u)
  \/ BackToList
  \/ ClosePopup
  \/ handleDeleteConversation
  \/ ClockTick

SpecMessages == InitMessages /\ [][NextMessages]_vars

\* ---------------------------------------------------------------------------
\* C19: a deleted conversation stays out of the contact list until a newer
\* message exists
\* ---------------------------------------------------------------------------

\* A message between the user and u created after the deletion time of u.
NewerMessageExists(u, dms, deleted) == \E t \in dms[u] : t > deleted[u]

\* The refreshes that compute their list in this step.
RefreshesAnswered ==
  {f \in contactFetches' \ contactFetches : f.stage = "answered"}

\* C19: after the user deleted the conversation with contact U at time T,
\* every refresh of the contact list that is computed later leaves U out as
\* long as no message between the user and U created after T exists, and
\* lists U once such a message exists.
C19_DeletedUntilNewerMessage ==
  [][\A f \in RefreshesAnswered :
       \A u \in Contacts :
         messagesPage.deletedConvos[u] # 0 =>
           (u \in ContactIds(f.result) <=>
              NewerMessageExists(u, backend.dms, messagesPage.deletedConvos))]_vars

\* ---------------------------------------------------------------------------
\* C20: only an uninterrupted 600 ms press opens the delete popup
\* ---------------------------------------------------------------------------

\* The popup was opened only by presses that had seen no release, leave or
\* move when their 600 ms ran out.
PopupOnlyFromHeldPress ==
  messagesPage.opened.id # NoTimer => ~messagesPage.opened.cancelled

\* No timeout is pending for a press that was released or moved.
ReleaseCancelsTimeout == \A t \in messagesPage.timers : ~t.cancelled

\* The row click that follows a triggered long press leaves the chat closed.
TriggeredClickKeepsList ==
  (/\ messagesPage.longPressTriggeredRef
   /\ ~messagesPage'.longPressTriggeredRef
   /\ messagesPage'.timers = messagesPage.timers)
    => messagesPage'.selectedUser = messagesPage.selectedUser

\* C20: a press on a contact row opens the delete popup only if it is held
\* for 600 ms with no release, pointer-leave or touch-move in between; a
\* release or move before 600 ms cancels the press for every sequence of press
\* events, two presses without a release between them included; and the click
\* that ends a triggered long press does not open the chat.
C20_LongPressOnlyWhenHeld ==
  /\ []PopupOnlyFromHeldPress
  /\ []ReleaseCancelsTimeout
  /\ [][TriggeredClickKeepsList]_vars

\* ---------------------------------------------------------------------------
\* HomePage (HomePage.tsx): the notification panel and its unread counter
\* ---------------------------------------------------------------------------

\* Bound on the notifications (likes, follows, messages) created in a run.
MaxNotifs == 2

\* Bound on the fetchNotifications calls in flight at once.
MaxNotifFetches == 2

outsideHome == <<cropperVars, canvas, avatar, app, inflight, appLog,
                 messagesPage, contactFetches, chat, feed, session>>

\* getLastSeen: the ref, filled from localStorage while it is null.
getLastSeen(h) ==
  IF h.lastSeenRef = NeverSeen
    THEN [h EXCEPT !.lastSeenRef = h.stored]
    ELSE h

countUnread_inclusive(allNotifs, lastSeen) ==
  IF lastSeen # NeverSeen
    THEN Cardinality({n \in allNotifs : n.created_at >= lastSeen})
    ELSE Cardinality(allNotifs)

\* The unread count fetchNotifications derives from its list and last-seen.
countUnread(allNotifs, lastSeen) ==
  IF lastSeen # NeverSeen
    THEN Cardinality({n \in allNotifs : n.created_at > lastSeen})
    ELSE Cardinality(allNotifs)

\* A like, a follow or a message for the current user is created.
NotificationCreated ==
  /\ Cardinality(backend.notifs) < MaxNotifs
  /\ backend' = [backend EXCEPT !.notifs =
       @ \cup {[id |-> Cardinality(backend.notifs) + 1,
                created_at |-> backend.now]}]
  /\ UNCHANGED homePage
  /\ UNCHANGED outsideHome

\* The 15-second interval (or a changed posts prop) calls fetchNotifications.
fetchNotifications ==
  /\ \E id \in 1..MaxNotifFetches :
       /\ id \notin {f.id : f \in homePage.fetches}
       /\ \A other \in 1..(id - 1) : other \in {f.id : f \in homePage.fetches}
       /\ homePage' = [homePage EXCEPT
            !.fetches = @ \cup {NotifFetch(id, "sent", {}, FALSE)}]
  /\ UNCHANGED backend
  /\ UNCHANGED outsideHome

\* The queries of one fetchNotifications call are answered.
NotificationsAnswered ==
  /\ \E f \in homePage.fetches :
       /\ f.stage = "sent"
       /\ homePage' = [homePage EXCEPT !.fetches =
            (@ \ {f}) \cup {NotifFetch(f.id, "answered", backend.notifs, f.early)}]
  /\ UNCHANGED backend
  /\ UNCHANGED outsideHome

\* fetchNotifications after its awaits: setNotifications, then the unread
\* count from getLastSeen().
fetchNotificationsDone ==
  /\ \E f \in homePage.fetches :
       /\ f.stage = "answered"
       /\ homePage' =
            LET h == getLastSeen(homePage)
            IN  [h EXCEPT !.notifications = f.result,
                          !.unreadCount = countUnread(f.result, h.lastSeenRef),
                          !.fetches = @ \ {f},
                          !.raced = f.early]
  /\ UNCHANGED backend
  /\ UNCHANGED outsideHome

\* The heart button: toggles the panel; on opening stores the time as last
\* seen and clears the counter. The calls in flight are marked (history).
handleOpenNotifications ==
  /\ homePage' =
       IF ~homePage.showNotifications
         THEN [homePage EXCEPT
                 !.showNotifications = TRUE,
                 !.stored = backend.now,
                 !.lastSeenRef = backend.now,
                 !.unreadCount = 0,
                 !.fetches = {[f EXCEPT !.early = TRUE] : f \in @}]
         ELSE [homePage EXCEPT !.showNotifications = FALSE]
  /\ UNCHANGED backend
  /\ UNCHANGED outsideHome

\* A mouse-down outside the open panel.
handleClickOutside ==
  /\ homePage.showNotifications
  /\ homePage' = [homePage EXCEPT !.showNotifications = FALSE]
  /\ UNCHANGED backend
  /\ UNCHANGED outsideHome

\* HomePage mounted by a logged-in App; the user may have opened the panel in
\* an earlier visit.
InitHome ==
  /\ InitWith({<<1, 1>>}, ContainerWidths)
  /\ canvas = EmptyCanvas
  /\ avatar = AvatarInit
  /\ app = AppInit
  /\ backend = BackendIdle
  /\ inflight = InflightInit
  /\ appLog = AppLogInit
  /\ messagesPage = MessagesPageInit
  /\ contactFetches = {}
  /\ homePage \in {[HomePageInit EXCEPT !.stored = t] : t \in {NeverSeen, 1}}
  /\ chat = ChatInit
  /\ feed = FeedInit
  /\ session = SessionInit

NextHome ==
  \/ NotificationCreated
  \/ fetchNotifications
  \/ NotificationsAnswered
  \/ fetchNotificationsDone
  \/ handleOpenNotifications
  \/ handleClickOutside
  \/ ClockTick

SpecHome == InitHome /\ [][NextHome]_vars

\* ---------------------------------------------------------------------------
\* C21: opening the panel clears the counter; later fetches count only newer
\* notifications
\* ---------------------------------------------------------------------------

\* The step opens the panel.
PanelOpens == ~homePage.showNotifications /\ homePage'.showNotifications

\* The step completes a fetchNotifications call.
NotifFetchCompletes ==
  \E f \in homePage.fetches :
    f.stage = "answered" /\ homePage'.fetches = homePage.fetches \ {f}

CreatedAfter(ns, t) == {n \in ns : n.created_at > t}

OpeningClearsAndRecords ==
  PanelOpens => /\ homePage'.unreadCount = 0
                /\ homePage'.stored = backend.now

FetchCountsNewer ==
  (NotifFetchCompletes /\ homePage.stored # NeverSeen) =>
    homePage'.unreadCount =
      Cardinality(CreatedAfter(homePage'.notifications, homePage.stored))

ZeroUntilNewer ==
  (homePage.stored # NeverSeen /\ CreatedAfter(backend.notifs, homePage.stored) = {})
    => homePage.unreadCount = 0

\* C21: opening the notifications panel sets the unread count to 0 and
\* records the current time as last-seen; from then on, after every
\* notification fetch (one in flight when the panel was opened included) the
\* unread count is the number of fetched notifications created after
\* last-seen, so it is 0 as long as no newer notification exists.
C21_UnreadAfterLastSeen ==
  /\ []ZeroUntilNewer
  /\ [][OpeningClearsAndRecords /\ FetchCountsNewer]_vars

\* A fetch that was in flight when the panel was opened has completed with
\* notifications, all of them older than last-seen, and the counter is 0.
C21_Witness ==
  /\ homePage.raced
  /\ homePage.notifications # {}
  /\ homePage.unreadCount = 0
  /\ homePage.lastSeenRef # NeverSeen

\* ---------------------------------------------------------------------------
\* The chat view (part_002 MessagesPage; GroupsPage.tsx has the same refs and
\* effects): fetchMessages, the scroll refs and the auto-scroll effect
\* ---------------------------------------------------------------------------

\* Bound on the messages created in a run.
MaxRows == 2

\* Bound on the fetchMessages calls in flight at once.
MaxChatFetches == 2

ScrollThreshold == 150

\* The distances from the bottom a scroll can leave the container at.
DistanceLevels == {0, ScrollThreshold, ScrollThreshold + 1}

outsideChat == <<cropperVars, canvas, avatar, app, inflight, appLog,
                 messagesPage, contactFetches, homePage, feed, session>>

ChatFetch(id, user, stage, result) ==
  [id |-> id, user |-> user, stage |-> stage, result |-> result]

\* The id of a new call: the smallest one no call in flight has.
FreeChatId(c) ==
  CHOOSE id \in 1..MaxChatFetches :
    /\ id \notin {f.id : f \in c.fetches}
    /\ \A other \in 1..(id - 1) : other \in {f.id : f \in c.fetches}

CanFetchChat(c) == Cardinality(c.fetches) < MaxChatFetches

\* fetchMessages as called by a closure whose selectedUser is u.
startFetchMessages(c, u) ==
  [c EXCEPT !.fetches = @ \cup {ChatFetch(FreeChatId(c), u, "sent", <<>>)}]

\* The rows of the messages table exchanged with peer u, oldest first.
Conversation(rows, u) == SelectSeq(rows, LAMBDA r : r.peer = u)

nearBottom_strict(d) == d < ScrollThreshold

\* handleScroll's test: distanceFromBottom <= threshold.
nearBottom(d) == d <= ScrollThreshold

\* The auto-scroll effect, run after setMessages(all).
autoScroll(c) ==
  LET currentCount == Len(c.messages)
      hasNewMessages == currentCount > c.prevMessageCountRef
      isMyLastMessage == c.messages[currentCount].mine
      shown == c.selectedUser # NULL
      scrolls == \/ c.isInitialLoadRef
                 \/ hasNewMessages /\ isMyLastMessage
                 \/ hasNewMessages /\ c.isNearBottomRef
      moved == scrolls /\ shown /\ c.distance # 0
  IN  IF currentCount = 0
        THEN [c EXCEPT !.prevMessageCountRef = 0,
                       !.scrolled = FALSE,
                       !.distance = 0,
                       !.isNearBottomRef = IF c.distance # 0 /\ shown
                                             THEN TRUE ELSE @,
                       !.sentSinceScroll = IF c.distance # 0 /\ shown
                                             THEN FALSE ELSE @]
        ELSE [c EXCEPT !.prevMessageCountRef = currentCount,
                       !.isInitialLoadRef = FALSE,
                       !.loadedSince = TRUE,
                       !.scrolled = scrolls /\ shown,
                       !.distance = IF scrolls /\ shown THEN 0 ELSE @,
                       !.isNearBottomRef = IF moved THEN TRUE ELSE @,
                       !.sentSinceScroll = IF moved THEN FALSE ELSE @]

\* A contact row is clicked (or chatTarget arrives): setSelectedUser(u), the
\* scroll-reset effect, and the effect that calls fetchMessages.
setSelectedUser(u) ==
  /\ chat.selectedUser = NULL
  /\ CanFetchChat(chat)
  /\ \E d \in DistanceLevels :
       /\ chat.messages = <<>> => d = 0
       /\ chat' = startFetchMessages(
            [chat EXCEPT !.selectedUser = u,
                         !.isInitialLoadRef = TRUE,
                         !.prevMessageCountRef = 0,
                         !.isNearBottomRef = TRUE,
                         !.distance = d,
                         !.loadedSince = FALSE,
                         !.sentSinceScroll = FALSE], u)
  /\ UNCHANGED backend
  /\ UNCHANGED outsideChat

\* The chat view's back button.
closeChat ==
  /\ chat.selectedUser # NULL
  /\ chat' = [chat EXCEPT !.selectedUser = NULL]
  /\ UNCHANGED backend
  /\ UNCHANGED outsideChat

\* The 3-second interval calls fetchMessages.
pollMessages ==
  /\ chat.selectedUser # NULL
  /\ CanFetchChat(chat)
  /\ chat' = startFetchMessages(chat, chat.selectedUser)
  /\ UNCHANGED backend
  /\ UNCHANGED outsideChat

\* The two selects of one fetchMessages call are answered.
MessagesAnswered ==
  /\ \E f \in chat.fetches :
       /\ f.stage = "sent"
       /\ chat' = [chat EXCEPT !.fetches = (@ \ {f}) \cup
            {ChatFetch(f.id, f.user, "answered",
                       Conversation(backend.rows, f.user))}]
  /\ UNCHANGED backend
  /\ UNCHANGED outsideChat

\* fetchMessages after its selects: setMessages(all), then the auto-scroll
\* effect.
fetchMessagesDone ==
  /\ \E f \in chat.fetches :
       /\ f.stage = "answered"
       /\ chat' = autoScroll(
            [chat EXCEPT !.messages = f.result,
                         !.fetches = @ \ {f},
                         !.grew = Len(f.result) > Len(chat.messages)])
  /\ UNCHANGED backend
  /\ UNCHANGED outsideChat

\* The user scrolls the displayed messages to distance d from the bottom:
\* handleScroll.
handleScroll(d) ==
  /\ chat.selectedUser # NULL
  /\ chat.messages # <<>>
  /\ d # chat.distance
  /\ chat' = [chat EXCEPT !.distance = d,
                          !.isNearBottomRef = nearBottom(d),
                          !.sentSinceScroll = FALSE]
  /\ UNCHANGED backend
  /\ UNCHANGED outsideChat

\* handleSend up to its first await.
handleSend ==
  /\ chat.selectedUser # NULL
  /\ chat.sending = NULL
  /\ Len(backend.rows) < MaxRows
  /\ chat' = [chat EXCEPT !.isNearBottomRef = TRUE,
                          !.sending = chat.selectedUser,
                          !.sentSinceScroll = TRUE]
  /\ UNCHANGED backend
  /\ UNCHANGED outsideChat

\* handleSend after the insert: the row exists, fetchMessages is called.
handleSendInserted ==
  /\ chat.sending # NULL
  /\ CanFetchChat(chat)
  /\ backend' = [backend EXCEPT !.rows =
       Append(@, [id |-> Len(backend.rows) + 1, peer |-> chat.sending,
                  mine |-> TRUE])]
  /\ chat' = startFetchMessages([chat EXCEPT !.sending = NULL], chat.sending)
  /\ UNCHANGED outsideChat

\* Contact u sends the user a message.
PeerMessage(u) ==
  /\ Len(backend.rows) < MaxRows
  /\ backend' = [backend EXCEPT !.rows =
       Append(@, [id |-> Len(backend.rows) + 1, peer |-> u, mine |-> FALSE])]
  /\ UNCHANGED chat
  /\ UNCHANGED outsideChat

\* MessagesPage mounted with the contact list in front.
InitChat ==
  /\ InitWith({<<1, 1>>}, ContainerWidths)
  /\ canvas = EmptyCanvas
  /\ avatar = AvatarInit
  /\ app = pageEffect([AppInit EXCEPT !.currentPage = "messages"])
  /\ backend = BackendIdle
  /\ inflight = InflightInit
  /\ appLog = AppLogInit
  /\ messagesPage = MessagesPageInit
  /\ contactFetches = {}
  /\ homePage = HomePageInit
  /\ chat = ChatInit
  /\ feed = FeedInit
  /\ session = SessionInit

NextChat ==
  \/ \E u \in Contacts : setSelectedUser(u)
  \/ closeChat
  \/ pollMessages
  \/ MessagesAnswered
  \/ fetchMessagesDone
  \/ \E d \in DistanceLevels : handleScroll(d)
  \/ handleSend
  \/ handleSendInserted
  \/ \E u \in Contacts : PeerMessage(u)

SpecChat == InitChat /\ [][NextChat]_vars

\* ---------------------------------------------------------------------------
\* C22: when a refresh grows the list, the chat scrolls to the bottom on the
\* first load, for an own message, or near the bottom, and not otherwise
\* ---------------------------------------------------------------------------

\* The step completes a fetchMessages call.
ChatRefreshCompletes ==
  \E f \in chat.fetches :
    f.stage = "answered" /\ chat'.fetches = chat.fetches \ {f}

\* The step sets a longer list in a displayed chat.
RefreshGrowsList ==
  /\ ChatRefreshCompletes
  /\ chat.selectedUser # NULL
  /\ Len(chat'.messages) > Len(chat.messages)

FirstNonEmptyLoad == ~chat.loadedSince /\ chat'.messages # <<>>

LastMessageIsMine == chat'.messages[Len(chat'.messages)].mine

WithinThreshold == chat.distance <= ScrollThreshold

C23_OnlyMessagesOfSelectedUser ==
  chat.selectedUser # NULL =>
    \A i \in 1..Len(chat.messages) : chat.messages[i].peer = chat.selectedUser

\* ---------------------------------------------------------------------------
\* App.handleLike (part_003): one user's like on one post
\* ---------------------------------------------------------------------------

\* Bound on the handleLike calls awaiting their database operation.
MaxToggles == 2

\* Bound on the fetchPosts calls in flight at once.
MaxPostFetches == 2

\* Bound on the like rows of the user and the post.
MaxLikeRows == 3

outsideFeed == <<cropperVars, canvas, avatar, app, inflight, appLog,
                 messagesPage, contactFetches, homePage, chat, session>>

FreeId(used, max) ==
  CHOOSE id \in 1..max :
    id \notin used /\ \A other \in 1..(id - 1) : other \in used

\* The like button: handleLike up to its first await. The operation is
\* chosen from the posts state of the render the click happened in.
handleLike ==
  /\ Cardinality(feed.toggles) < MaxToggles
  /\ backend.likeRows + Cardinality(feed.toggles) < MaxLikeRows
  /\ feed' = [feed EXCEPT !.toggles = @ \cup
       {[id |-> FreeId({t.id : t \in feed.toggles}, MaxToggles),
         op |-> IF feed.liked THEN "delete" ELSE "insert"]}]
  /\ UNCHANGED backend
  /\ UNCHANGED outsideFeed

\* The like rows after the database has run op: delete().match removes every
\* row of the user and the post; insert adds one, unless the table has a
\* unique key on (post_id, user_id) and a row exists.
applyLike(b, op) ==
  IF op = "delete"
    THEN [b EXCEPT !.likeRows = 0]
    ELSE IF b.likesUnique /\ b.likeRows > 0
           THEN b
           ELSE [b EXCEPT !.likeRows = @ + 1]

startFetchPosts(f) ==
  [f EXCEPT !.fetches = @ \cup
     {[id |-> FreeId({q.id : q \in f.fetches}, MaxPostFetches),
       stage |-> "sent", result |-> FALSE]}]

\* handleLike after its insert or delete: fetchPosts is called.
handleLikeApplied ==
  /\ Cardinality(feed.fetches) < MaxPostFetches
  /\ \E t \in feed.toggles :
       /\ backend' = applyLike(backend, t.op)
       /\ feed' = startFetchPosts([feed EXCEPT !.toggles = @ \ {t}])
  /\ UNCHANGED outsideFeed

\* onRefreshPosts and the other handlers that end with fetchPosts().
refreshPosts ==
  /\ Cardinality(feed.fetches) < MaxPostFetches
  /\ feed' = startFetchPosts(feed)
  /\ UNCHANGED backend
  /\ UNCHANGED outsideFeed

\* The likes select of one fetchPosts call is answered.
PostsAnswered ==
  /\ \E q \in feed.fetches :
       /\ q.stage = "sent"
       /\ feed' = [feed EXCEPT !.fetches = (@ \ {q}) \cup
            {[q EXCEPT !.stage = "answered",
                       !.result = backend.likeRows > 0]}]
  /\ UNCHANGED backend
  /\ UNCHANGED outsideFeed

\* fetchPosts after its awaits: setPosts(postsWithDetails).
fetchPostsDone ==
  /\ \E q \in feed.fetches :
       /\ q.stage = "answered"
       /\ feed' = [feed EXCEPT !.liked = q.result, !.fetches = @ \ {q}]
  /\ UNCHANGED backend
  /\ UNCHANGED outsideFeed

\* A logged-in App showing a post the user has not liked; the schema of the
\* likes table is not part of the repository, so it may or may not have a
\* unique key.
InitFeed ==
  /\ InitWith({<<1, 1>>}, ContainerWidths)
  /\ canvas = EmptyCanvas
  /\ avatar = AvatarInit
  /\ app = AppInit
  /\ backend \in {[BackendIdle EXCEPT !.likesUnique = k] : k \in BOOLEAN}
  /\ inflight = InflightInit
  /\ appLog = AppLogInit
  /\ messagesPage = MessagesPageInit
  /\ contactFetches = {}
  /\ homePage = HomePageInit
  /\ chat = ChatInit
  /\ feed = FeedInit
  /\ session = SessionInit

NextFeed ==
  \/ handleLike
  \/ handleLikeApplied
  \/ refreshPosts
  \/ PostsAnswered
  \/ fetchPostsDone

SpecFeed == InitFeed /\ [][NextFeed]_vars

\* ---------------------------------------------------------------------------
\* C24: like toggles keep at most one like row and each flips the state
\* ---------------------------------------------------------------------------

AtMostOneLikeRow == backend.likeRows <= 1

\* The step is the database operation of a handleLike call.
ToggleCompletes ==
  \E t \in feed.toggles : feed'.toggles = feed.toggles \ {t}

ToggleFlipsLiked ==
  ToggleCompletes => ((backend'.likeRows > 0) # (backend.likeRows > 0))

\* C24: after any sequence of like toggles by one user on one post, a second
\* toggle issued before the re-fetch of the first has completed included, the
\* backend holds at most one like row of that user and post, and each
\* completed toggle flips the liked state.
C24_ToggleKeepsOneRow ==
  /\ []AtMostOneLikeRow
  /\ [][ToggleFlipsLiked]_vars

\* ---------------------------------------------------------------------------
\* App (part_003): login, logout and the navigation handlers
\* ---------------------------------------------------------------------------

\* Bound on the fetchUnreadMessages calls in flight at once.
MaxUserFetches == 2

\* The accounts that log in on this browser.
SessionUsers == {"userA", "userB"}

\* The pages of the navigation bar.
NavPages == Pages \cup {"search", "profile"}

\* The unread count the database holds for each account.
UnreadOf == [u \in SessionUsers |-> IF u = "userA" THEN 1 ELSE 2]

outsideNav == <<cropperVars, canvas, avatar, backend, inflight, appLog,
                messagesPage, contactFetches, homePage, chat, feed>>

\* fetchUnreadMessages as called by a closure whose currentUser is u.
fetchUnreadMessagesAs(s, u) ==
  [s EXCEPT !.fetches = @ \cup
     {[id |-> FreeId({f.id : f \in s.fetches}, MaxUserFetches),
       user |-> u, stage |-> "sent", count |-> 0]}]

\* setUnreadMessages(0) of the page effect resets the badge's origin.
badgeAfterPageEffect(s, a) ==
  IF a.currentPage = "messages" THEN [s EXCEPT !.badgeOwner = NULL] ELSE s

\* LoginPage's onLogin: setCurrentUser(user); the currentUser effects call
\* fetchUnreadMessages and the page effect.
handleLogin(u) ==
  /\ session.currentUser = NULL
  /\ Cardinality(session.fetches) < MaxUserFetches
  /\ app' = pageEffect(app)
  /\ session' = badgeAfterPageEffect(
       fetchUnreadMessagesAs([session EXCEPT !.currentUser = u], u), app)
  /\ UNCHANGED outsideNav

\* ProfilePage's logout button.
handleLogout ==
  /\ session.currentUser # NULL
  /\ app.currentPage = "profile"
  /\ app' = [app EXCEPT !.currentPage = "home", !.viewingUser = NULL,
                        !.isOnGroupsPageRef = FALSE]
  /\ session' = [session EXCEPT !.currentUser = NULL]
  /\ UNCHANGED outsideNav

\* A navigation-bar button.
NavClick(page) ==
  /\ session.currentUser # NULL
  /\ handleNavClick(page)

\* onViewProfile of HomePage and SearchPage.
handleViewProfile(u) ==
  /\ session.currentUser # NULL
  /\ app.currentPage \in {"home", "search"}
  /\ app' = pageEffect([app EXCEPT !.viewingUser = u,
                                   !.currentPage = "profile"])
  /\ UNCHANGED session
  /\ UNCHANGED outsideNav

\* onSetViewingUser of ProfilePage.
setViewingUser(u) ==
  /\ session.currentUser # NULL
  /\ app.currentPage = "profile"
  /\ app' = [app EXCEPT !.viewingUser = u]
  /\ UNCHANGED session
  /\ UNCHANGED outsideNav

\* onNavigateMessages of ProfilePage: the message button of the profile shown.
handleNavigateMessages(u) ==
  /\ session.currentUser # NULL
  /\ app.currentPage = "profile"
  /\ app.viewingUser = u
  /\ app' = pageEffect([app EXCEPT !.chatTarget = u,
                                   !.currentPage = "messages"])
  /\ session' = [session EXCEPT !.badgeOwner = NULL, !.targeted = TRUE]
  /\ UNCHANGED outsideNav

\* onClearTarget of MessagesPage.
onClearTarget ==
  /\ session.currentUser # NULL
  /\ app.currentPage = "messages"
  /\ app.chatTarget # NULL
  /\ app' = [app EXCEPT !.chatTarget = NULL]
  /\ UNCHANGED session
  /\ UNCHANGED outsideNav

\* The 10-second interval of the logged-in App calls fetchUnreadMessages.
pollUnreadMessages ==
  /\ session.currentUser # NULL
  /\ Cardinality(session.fetches) < MaxUserFetches
  /\ session' = fetchUnreadMessagesAs(session, session.currentUser)
  /\ UNCHANGED app
  /\ UNCHANGED outsideNav

\* The count query of one fetchUnreadMessages call is answered.
UnreadAnswered ==
  /\ \E f \in session.fetches :
       /\ f.stage = "sent"
       /\ session' = [session EXCEPT !.fetches = (@ \ {f}) \cup
            {[f EXCEPT !.stage = "answered", !.count = UnreadOf[f.user]]}]
  /\ UNCHANGED app
  /\ UNCHANGED outsideNav

\* fetchUnreadMessages after its await: setUnreadMessages(count || 0).
setUnreadMessages ==
  /\ \E f \in session.fetches :
       /\ f.stage = "answered"
       /\ app' = [app EXCEPT !.unreadMessages = f.count]
       /\ session' = [session EXCEPT !.fetches = @ \ {f},
                                     !.badgeOwner = f.user]
  /\ UNCHANGED outsideNav

\* App with nobody logged in (LoginPage shown).
InitNav ==
  /\ InitWith({<<1, 1>>}, ContainerWidths)
  /\ canvas = EmptyCanvas
  /\ avatar = AvatarInit
  /\ app = AppInit
  /\ backend = BackendIdle
  /\ inflight = [InflightInit EXCEPT !.messages = {}, !.groups = {}]
  /\ appLog = AppLogInit
  /\ messagesPage = MessagesPageInit
  /\ contactFetches = {}
  /\ homePage = HomePageInit
  /\ chat = ChatInit
  /\ feed = FeedInit
  /\ session = SessionInit

NextNav ==
  \/ \E u \in SessionUsers : handleLogin(u)
  \/ handleLogout
  \/ \E page \in NavPages : NavClick(page)
  \/ \E u \in Contacts : handleViewProfile(u)
  \/ \E u \in Contacts : setViewingUser(u)
  \/ \E u \in Contacts : handleNavigateMessages(u)
  \/ onClearTarget
  \/ pollUnreadMessages
  \/ UnreadAnswered
  \/ setUnreadMessages

SpecNav == InitNav /\ [][NextNav]_vars

\* ---------------------------------------------------------------------------
\* C25: chatTarget is set only on the messages page
\* ---------------------------------------------------------------------------

\* C25: in every state the navigation handlers handleNavClick,
\* handleViewProfile, handleNavigateMessages and handleLogout can reach,
\* chatTarget is non-null only while currentPage is 'messages'.
C25_ChatTargetOnlyOnMessages ==
  app.chatTarget # NULL => app.currentPage = "messages"

\* A chat target was set from a profile, and the user has left the messages
\* page since: the target is gone.
C25_Witness ==
  /\ session.targeted
  /\ app.currentPage # "messages"
  /\ app.chatTarget = NULL

\* ---------------------------------------------------------------------------
\* C26: the unread-message badge belongs to the logged-in user
\* ---------------------------------------------------------------------------

\* The badge shown to a logged-in user was not computed for another user.
BadgeOfCurrentUser ==
  (session.currentUser # NULL /\ session.badgeOwner # NULL)
    => session.badgeOwner = session.currentUser

\* The step completes a fetchUnreadMessages call started under a user other
\* than the one logged in.
ForeignFetchCompletes ==
  /\ session.currentUser # NULL
  /\ \E f \in session.fetches :
       /\ f.stage = "answered"
       /\ f.user # session.currentUser
       /\ session'.fetches = session.fetches \ {f}

ForeignFetchKeepsBadge ==
  ForeignFetchCompletes => app'.unreadMessages = app.unreadMessages

\* C26: the unread-message badge always shows a count computed for the
\* logged-in user: after user A logs out and user B logs in, no completion of
\* a fetch started under A changes the badge shown to B.
C26_BadgeOfLoggedInUser ==
  /\ []BadgeOfCurrentUser
  /\ [][ForeignFetchKeepsBadge]_vars

====
